---- MODULE Spec2Model ----
(***************************************************************************)
(* hero-rank: the Elo rating engine.                                       *)
(*                                                                         *)
(*  - the live path: the tRPC mutation cast-vote and updateHeroRatings     *)
(*    (src/server/router/index.ts) over the Turso tables heroRatings and   *)
(*    votes;                                                               *)
(*  - the batch path: the migrate-elo API handler (pages/api/migrate-elo)  *)
(*    over the Firestore collections votes and heroRatings;                *)
(*  - the pure rating calculator (utils/elo).                              *)
(*                                                                         *)
(* Ratings are integers (1500 plus sums of Math.round results).  The       *)
(* floating-point expected score is carried as a fixed-point number of     *)
(* Scale-ths, tabulated from the IEEE-754 evaluation of                    *)
(* 1 / (1 + Math.pow(10, d / 400)); K * E is then rounded exactly as       *)
(* Math.round does (half towards +Infinity).  Win rates are exact          *)
(* fractions <<numerator, denominator>> in lowest terms.                   *)
(***************************************************************************)
EXTENDS Integers, Sequences, FiniteSets, TLC

\* ------------------------------------------------------------------ bounds

\* Hero IDs offered to the model: 1..MaxHero.
MaxHero == 3
\* cast-vote requests accepted in one behaviour of the live path.
MaxCalls == 2
\* Concurrent cast-vote requests in flight.
MaxProcs == 2
\* Length of the Firestore votes collection replayed by migrate-elo.
MaxFsVotes == 3
\* Rating differences handed to the rating calculator:
\* -MaxRatingDiff..MaxRatingDiff.
MaxRatingDiff == 799
\* Games, and wins, handed to wilsonScore and wilsonScoreInterval:
\* 0..MaxWilsonGames.
MaxWilsonGames == 15
\* Games handed to getConfidenceLevel: 0..MaxLevelGames.
MaxLevelGames == 31
\* Rating differences handed to expectedScore: -MaxScoreDiff..MaxScoreDiff.
MaxScoreDiff == 399
\* Game counts handed to the rating calculator: 0 and the counts within
\* MaxGamesOffset of the provisional threshold.
MaxGamesOffset == 1
\* createdAt values of Firestore votes: 0 (the field is missing) .. MaxTime.
MaxTime == 1
\* migrate-elo requests served in one behaviour.
MaxRuns == 2
\* Seconds the database clock advances in one behaviour.
MaxNow == 1
\* Runs of the games-count repair script in one behaviour.
MaxFixRuns == 2
\* Comparisons in the history of a table the repair script is run on.
MaxStoreVotes == 3
\* Values Math.random() returns during one call of getForVote.
MaxDraws == 3
\* Math.random() returns multiples of 1 / RandomDen.
RandomDen == 1464

Heroes == 1..MaxHero
Procs == 1..MaxProcs

\* ------------------------------------------------------- rating calculator

DEFAULT_ELO_CONFIG ==
  [kFactor |-> 32, provisionalKFactor |-> 48, provisionalThreshold |-> 10,
   initialRating |-> 1500, provisionalFlagThreshold |-> 20]

Scale == 10^7

\* ExpectedTable[d + 1] = expectedScore(r, r + d) * Scale for d in 0..800,
\* rounded to the nearest integer.
ExpectedTable == <<
    5000000, 4985609, 4971218, 4956828, 4942438, 4928049, 4913662, 4899276, 4884891, 4870509,
    4856128, 4841750, 4827375, 4813002, 4798633, 4784267, 4769904, 4755545, 4741191, 4726840,
    4712494, 4698153, 4683817, 4669486, 4655161, 4640841, 4626527, 4612219, 4597918, 4583623,
    4569335, 4555054, 4540781, 4526515, 4512257, 4498006, 4483765, 4469531, 4455306, 4441090,
    4426884, 4412686, 4398499, 4384321, 4370153, 4355995, 4341848, 4327712, 4313586, 4299472,
    4285369, 4271277, 4257198, 4243130, 4229075, 4215032, 4201002, 4186985, 4172981, 4158990,
    4145013, 4131050, 4117100, 4103165, 4089244, 4075338, 4061446, 4047570, 4033708, 4019862,
    4006032, 3992218, 3978419, 3964637, 3950871, 3937122, 3923389, 3909674, 3895976, 3882295,
    3868632, 3854986, 3841359, 3827750, 3814159, 3800586, 3787033, 3773498, 3759982, 3746486,
    3733009, 3719552, 3706115, 3692697, 3679300, 3665923, 3652567, 3639231, 3625916, 3612623,
    3599350, 3586099, 3572869, 3559661, 3546475, 3533312, 3520170, 3507051, 3493954, 3480880,
    3467828, 3454800, 3441795, 3428813, 3415855, 3402920, 3390009, 3377122, 3364259, 3351420,
    3338606, 3325816, 3313050, 3300310, 3287594, 3274904, 3262238, 3249598, 3236983, 3224394,
    3211831, 3199293, 3186782, 3174296, 3161837, 3149404, 3136997, 3124618, 3112264, 3099938,
    3087638, 3075366, 3063121, 3050903, 3038712, 3026549, 3014414, 3002306, 2990226, 2978174,
    2966150, 2954154, 2942186, 2930247, 2918336, 2906454, 2894600, 2882775, 2870978, 2859211,
    2847472, 2835763, 2824083, 2812432, 2800810, 2789218, 2777655, 2766121, 2754618, 2743144,
    2731699, 2720285, 2708900, 2697546, 2686221, 2674927, 2663663, 2652429, 2641226, 2630052,
    2618910, 2607797, 2596716, 2585665, 2574644, 2563655, 2552696, 2541768, 2530871, 2520005,
    2509169, 2498365, 2487592, 2476850, 2466139, 2455460, 2444811, 2434194, 2423608, 2413054,
    2402531, 2392039, 2381579, 2371150, 2360753, 2350387, 2340053, 2329751, 2319480, 2309241,
    2299033, 2288857, 2278713, 2268601, 2258520, 2248471, 2238454, 2228469, 2218515, 2208594,
    2198704, 2188846, 2179020, 2169226, 2159463, 2149733, 2140034, 2130367, 2120732, 2111129,
    2101558, 2092019, 2082512, 2073036, 2063593, 2054181, 2044801, 2035453, 2026137, 2016853,
    2007600, 1998379, 1989191, 1980034, 1970908, 1961815, 1952753, 1943723, 1934725, 1925758,
    1916823, 1907920, 1899048, 1890208, 1881400, 1872623, 1863878, 1855164, 1846482, 1837831,
    1829212, 1820624, 1812067, 1803542, 1795048, 1786585, 1778154, 1769754, 1761385, 1753047,
    1744740, 1736464, 1728220, 1720006, 1711824, 1703672, 1695551, 1687461, 1679402, 1671373,
    1663375, 1655408, 1647472, 1639566, 1631690, 1623845, 1616031, 1608247, 1600493, 1592770,
    1585076, 1577413, 1569780, 1562178, 1554605, 1547062, 1539549, 1532066, 1524613, 1517189,
    1509796, 1502431, 1495097, 1487792, 1480517, 1473270, 1466054, 1458866, 1451708, 1444579,
    1437479, 1430409, 1423367, 1416354, 1409370, 1402415, 1395488, 1388591, 1381722, 1374881,
    1368069, 1361285, 1354530, 1347803, 1341104, 1334434, 1327791, 1321177, 1314590, 1308031,
    1301501, 1294997, 1288522, 1282074, 1275654, 1269261, 1262896, 1256558, 1250247, 1243963,
    1237707, 1231477, 1225275, 1219099, 1212950, 1206828, 1200733, 1194664, 1188622, 1182606,
    1176617, 1170654, 1164717, 1158806, 1152922, 1147063, 1141231, 1135424, 1129643, 1123887,
    1118158, 1112454, 1106775, 1101122, 1095494, 1089891, 1084313, 1078761, 1073233, 1067731,
    1062253, 1056800, 1051372, 1045969, 1040589, 1035235, 1029905, 1024599, 1019317, 1014060,
    1008826, 1003617, 998431, 993270, 988132, 983017, 977927, 972860, 967816, 962796,
    957799, 952825, 947874, 942946, 938042, 933160, 928301, 923464, 918651, 913860,
    909091, 904345, 899621, 894919, 890240, 885582, 880947, 876333, 871742, 867172,
    862624, 858097, 853592, 849109, 844647, 840206, 835786, 831388, 827010, 822654,
    818318, 814004, 809710, 805436, 801183, 796951, 792739, 788548, 784377, 780226,
    776095, 771984, 767893, 763822, 759771, 755740, 751728, 747736, 743763, 739810,
    735876, 731961, 728065, 724189, 720332, 716493, 712674, 708873, 705091, 701328,
    697583, 693857, 690149, 686459, 682788, 679135, 675500, 671883, 668285, 664704,
    661141, 657595, 654068, 650558, 647065, 643590, 640132, 636692, 633269, 629863,
    626474, 623102, 619747, 616409, 613088, 609783, 606496, 603224, 599970, 596731,
    593509, 590304, 587114, 583941, 580784, 577643, 574518, 571409, 568315, 565238,
    562175, 559129, 556098, 553083, 550083, 547098, 544129, 541174, 538235, 535311,
    532402, 529508, 526629, 523764, 520914, 518079, 515259, 512453, 509661, 506884,
    504121, 501373, 498639, 495918, 493212, 490520, 487842, 485178, 482527, 479890,
    477267, 474658, 472062, 469479, 466911, 464355, 461813, 459284, 456768, 454265,
    451775, 449299, 446835, 444384, 441946, 439521, 437108, 434709, 432321, 429946,
    427584, 425234, 422897, 420571, 418258, 415957, 413668, 411392, 409127, 406874,
    404633, 402404, 400187, 397981, 395787, 393605, 391434, 389275, 387127, 384990,
    382865, 380751, 378648, 376557, 374476, 372407, 370348, 368301, 366264, 364239,
    362224, 360219, 358226, 356243, 354271, 352309, 350357, 348416, 346486, 344566,
    342656, 340756, 338866, 336987, 335117, 333258, 331408, 329569, 327739, 325919,
    324109, 322309, 320518, 318737, 316965, 315203, 313451, 311707, 309974, 308249,
    306534, 304828, 303132, 301444, 299766, 298097, 296436, 294785, 293142, 291509,
    289884, 288268, 286661, 285062, 283473, 281891, 280319, 278755, 277199, 275652,
    274113, 272582, 271060, 269546, 268040, 266543, 265054, 263572, 262099, 260634,
    259177, 257727, 256286, 254852, 253426, 252008, 250598, 249196, 247801, 246413,
    245034, 243661, 242297, 240940, 239590, 238247, 236912, 235584, 234264, 232950,
    231644, 230345, 229053, 227769, 226491, 225220, 223956, 222699, 221449, 220206,
    218970, 217740, 216518, 215302, 214092, 212890, 211694, 210504, 209321, 208145,
    206975, 205811, 204654, 203503, 202359, 201220, 200089, 198963, 197843, 196730,
    195623, 194522, 193427, 192338, 191255, 190178, 189107, 188042, 186983, 185930,
    184882, 183841, 182805, 181775, 180750, 179731, 178718, 177710, 176708, 175712,
    174721, 173735, 172755, 171781, 170812, 169848, 168889, 167936, 166988, 166046,
    165109, 164176, 163249, 162328, 161411, 160499, 159593, 158691, 157795, 156903,
    156017, 155135, 154258, 153386, 152519, 151657, 150800, 149947, 149099, 148256,
    147418, 146584, 145755, 144930, 144111, 143295, 142484, 141678, 140876, 140079,
    139286, 138498, 137714, 136934, 136159, 135388, 134621, 133859, 133101, 132347,
    131597, 130852, 130110, 129373, 128640, 127911, 127186, 126466, 125749, 125036,
    124327, 123623, 122922, 122225, 121532, 120843, 120157, 119476, 118798, 118124,
    117454, 116788, 116125, 115467, 114811, 114160, 113512, 112868, 112227, 111590,
    110957, 110327, 109701, 109078, 108459, 107843, 107230, 106621, 106016, 105414,
    104815, 104220, 103628, 103039, 102454, 101872, 101293, 100717, 100145, 99576,
    99010
>>

\* expectedScore(ratingA, ratingB) in Scale-ths.  Outside the tabulated
\* difference the table is not consulted: the application is undefined and
\* TLC reports it.
expectedScore(ratingA, ratingB) ==
  LET d == ratingB - ratingA
  IN  IF d >= 0 THEN ExpectedTable[d + 1] ELSE Scale - ExpectedTable[(-d) + 1]

\* Math.round(num / den) for den > 0: floor(num / den + 1/2).
MathRound(num, den) == (2 * num + den) \div (2 * den)

\* { ...DEFAULT_ELO_CONFIG, ...config }: the fields config holds override the
\* defaults.
FullConfig(config) == config @@ DEFAULT_ELO_CONFIG

getKFactor(games, config) ==
  LET fullConfig == FullConfig(config)
  IN  IF games < fullConfig.provisionalThreshold
        THEN fullConfig.provisionalKFactor ELSE fullConfig.kFactor

\* calculateNewRatings choosing the loser's K-factor by the winner's games.
calculateNewRatingsOneK(winnerRating, loserRating, winnerGames, loserGames, config) ==
  LET fullConfig == FullConfig(config)
      winnerK == IF winnerGames < fullConfig.provisionalThreshold
                   THEN fullConfig.provisionalKFactor ELSE fullConfig.kFactor
      winnerExpected == expectedScore(winnerRating, loserRating)
      loserExpected == expectedScore(loserRating, winnerRating)
      winnerChange == MathRound(winnerK * (Scale - winnerExpected), Scale)
      loserChange == MathRound(winnerK * (0 - loserExpected), Scale)
  IN  [newWinnerRating |-> winnerRating + winnerChange,
       newLoserRating |-> loserRating + loserChange,
       winnerChange |-> winnerChange,
       loserChange |-> loserChange]

\* calculateNewRatings with the loser's change computed as K * (expected - 0).
calculateNewRatingsLoserGains(winnerRating, loserRating, winnerGames, loserGames, config) ==
  LET fullConfig == FullConfig(config)
      winnerK == IF winnerGames < fullConfig.provisionalThreshold
                   THEN fullConfig.provisionalKFactor ELSE fullConfig.kFactor
      loserK == IF loserGames < fullConfig.provisionalThreshold
                   THEN fullConfig.provisionalKFactor ELSE fullConfig.kFactor
      winnerExpected == expectedScore(winnerRating, loserRating)
      loserExpected == expectedScore(loserRating, winnerRating)
      winnerChange == MathRound(winnerK * (Scale - winnerExpected), Scale)
      loserChange == MathRound(loserK * (loserExpected - 0), Scale)
  IN  [newWinnerRating |-> winnerRating + winnerChange,
       newLoserRating |-> loserRating + loserChange,
       winnerChange |-> winnerChange,
       loserChange |-> loserChange]

calculateNewRatingsWith(winnerRating, loserRating, winnerGames, loserGames, config) ==
  LET fullConfig == FullConfig(config)
      winnerK == IF winnerGames < fullConfig.provisionalThreshold
                   THEN fullConfig.provisionalKFactor ELSE fullConfig.kFactor
      loserK == IF loserGames < fullConfig.provisionalThreshold
                   THEN fullConfig.provisionalKFactor ELSE fullConfig.kFactor
      winnerExpected == expectedScore(winnerRating, loserRating)
      loserExpected == expectedScore(loserRating, winnerRating)
      winnerChange == MathRound(winnerK * (Scale - winnerExpected), Scale)
      loserChange == MathRound(loserK * (0 - loserExpected), Scale)
  IN  [newWinnerRating |-> winnerRating + winnerChange,
       newLoserRating |-> loserRating + loserChange,
       winnerChange |-> winnerChange,
       loserChange |-> loserChange]

calculateNewRatings(winnerRating, loserRating, winnerGames, loserGames) ==
  calculateNewRatingsWith(winnerRating, loserRating, winnerGames, loserGames,
                          DEFAULT_ELO_CONFIG)

isProvisional(games) == games < DEFAULT_ELO_CONFIG.provisionalFlagThreshold

\* ------------------------------------------------------------- data model

DEFAULT_HERO_RATING ==
  [rating |-> 1500, games |-> 0, wins |-> 0, losses |-> 0,
   peakRating |-> 1500, lowestRating |-> 1500, currentStreak |-> 0]

createDefaultHeroRating(heroId) ==
  [heroId |-> heroId,
   rating |-> DEFAULT_HERO_RATING.rating,
   games |-> DEFAULT_HERO_RATING.games,
   wins |-> DEFAULT_HERO_RATING.wins,
   losses |-> DEFAULT_HERO_RATING.losses,
   peakRating |-> DEFAULT_HERO_RATING.peakRating,
   lowestRating |-> DEFAULT_HERO_RATING.lowestRating,
   currentStreak |-> DEFAULT_HERO_RATING.currentStreak]

Max(a, b) == IF a >= b THEN a ELSE b
Min(a, b) == IF a <= b THEN a ELSE b

RECURSIVE Gcd(_, _)
Gcd(a, b) == IF b = 0 THEN a ELSE Gcd(b, a % b)

\* The number num / den (den > 0) as a fraction in lowest terms.
Frac(num, den) ==
  LET g == Gcd(num, den) IN <<num \div g, den \div g>>

\* ------------------------------------------------------------------ state

VARIABLES
  \* Turso
  heroRatings,    \* table heroRatings: hero_id -> row (a function on the ids present)
  votes,          \* table votes, in insertion order: <<voted_for, voted_against>>
  \* cast-vote requests
  pc,             \* where each request stands
  input,          \* its input {votedFor, votedAgainst}
  winnerRating,   \* updateHeroRatings' local: the state read for the winner
  loserRating,    \* updateHeroRatings' local: the state read for the loser
  reads,          \* which of the two getHeroRating calls have returned
  readFailed,     \* which of them hit the catch branch
  written,        \* which of the two INSERT OR REPLACE statements have executed
  calls,          \* requests accepted so far
  now,            \* the database clock, datetime('now'), in seconds
  \* fix-games-count script
  fpc,            \* where the script stands
  found,          \* hero ids of the rows its first SELECT returned
  fixRuns,        \* runs started so far
  fixDone,        \* whether a run has completed
  \* Firestore
  fsVotes,        \* collection votes, in document order
  fsRatings,      \* collection heroRatings: heroId -> document
  \* migrate-elo request
  mpc,            \* where the handler stands
  query,          \* its query parameters {dryRun, force}
  fetched,        \* fetchAllVotes' result
  ratings,        \* the in-memory RatingsMap: {keys (insertion order), val}
  existingDocs,   \* writeRatingsToFirestore's read of the collection
  pending,        \* documents the running delete or write loop has not committed
  response,       \* <<the JSON body the handler answers with>>
  lastGood,       \* <<the collection as the last successful migration left it>>
  runs,           \* migrate-elo requests served so far
  \* utility functions
  calc            \* <<the last call of a pure function: its arguments and result>>

liveVars == <<heroRatings, votes, pc, input, winnerRating, loserRating, reads,
              readFailed, written, calls>>
batchVars == <<fsVotes, fsRatings, mpc, query, fetched, ratings, existingDocs,
               pending, response, lastGood, runs>>
calcVars == <<calc>>
fixVars == <<fpc, found, fixRuns, fixDone>>
clockVars == <<now>>
vars == <<liveVars, batchVars, calcVars, fixVars, clockVars>>

EmptyMap == [h \in {} |-> 0]

\* ------------------------------------------------------------- live path

\* The row a SELECT returns, as getHeroRating maps it to a HeroRatingState.
RowToState(data) ==
  [heroId |-> data.hero_id,
   rating |-> data.rating,
   games |-> data.games,
   wins |-> data.wins,
   losses |-> data.losses,
   peakRating |-> data.peak_rating,
   lowestRating |-> data.lowest_rating,
   currentStreak |-> data.current_streak]

\* getHeroRating(heroId); ok = FALSE: turso.execute threw.
getHeroRating(heroId, ok) ==
  IF ok /\ heroId \in DOMAIN heroRatings
    THEN RowToState(heroRatings[heroId])
    ELSE createDefaultHeroRating(heroId)

\* The arguments of the winner's INSERT OR REPLACE.
\* A column the statement does not list takes its default, NULL.
NULL == <<>>

WinnerRow(winnerId, winner, loser, at) ==
  LET eloResult == calculateNewRatings(winner.rating, loser.rating,
                                       winner.games, loser.games)
      winnerNewGames == winner.games + 1
      winnerNewWins == winner.wins + 1
      winnerNewStreak == IF winner.currentStreak >= 0
                           THEN winner.currentStreak + 1 ELSE 1
      winnerNewPeak == Max(winner.peakRating, eloResult.newWinnerRating)
      winnerNewLowest == Min(winner.lowestRating, eloResult.newWinnerRating)
      winnerWinRate == Frac(winnerNewWins * 100, winnerNewGames)
      loserNewLosses == loser.losses + 1
  IN  [hero_id |-> winnerId,
       rating |-> eloResult.newWinnerRating,
       games |-> winnerNewGames,
       wins |-> winnerNewWins,
       losses |-> loserNewLosses,
       is_provisional |-> isProvisional(winnerNewGames),
       peak_rating |-> winnerNewPeak,
       lowest_rating |-> winnerNewLowest,
       win_rate |-> winnerWinRate,
       current_streak |-> winnerNewStreak,
       hero_name |-> NULL,
       created_at |-> at]

\* The arguments of the loser's INSERT OR REPLACE.
LoserRow(loserId, winner, loser, at) ==
  LET eloResult == calculateNewRatings(winner.rating, loser.rating,
                                       winner.games, loser.games)
      loserNewGames == loser.games + 1
      loserNewLosses == loser.losses + 1
      loserNewStreak == IF loser.currentStreak <= 0
                          THEN loser.currentStreak - 1 ELSE -1
      loserNewPeak == Max(loser.peakRating, eloResult.newLoserRating)
      loserNewLowest == Min(loser.lowestRating, eloResult.newLoserRating)
      loserWinRate == Frac(loser.wins * 100, loserNewGames)
  IN  [hero_id |-> loserId,
       rating |-> eloResult.newLoserRating,
       games |-> loserNewGames,
       wins |-> loser.wins,
       losses |-> loserNewLosses,
       is_provisional |-> isProvisional(loserNewGames),
       peak_rating |-> loserNewPeak,
       lowest_rating |-> loserNewLowest,
       win_rate |-> loserWinRate,
       current_streak |-> loserNewStreak,
       hero_name |-> NULL,
       created_at |-> at]

\* INSERT OR REPLACE INTO heroRatings: hero_id is the primary key.
Upsert(table, row) == (row.hero_id :> row) @@ table

NoInput == [votedFor |-> 0, votedAgainst |-> 0]

\* cast-vote arrives with input {votedFor, votedAgainst} (zod: two numbers)
\* and executes INSERT INTO votes; ok = FALSE: the statement threw, and the
\* catch returns {success: false}.
CastVote(p, votedFor, votedAgainst, ok) ==
  /\ pc[p] = "idle"
  /\ calls < MaxCalls
  /\ calls' = calls + 1
  /\ input' = [input EXCEPT ![p] = [votedFor |-> votedFor,
                                    votedAgainst |-> votedAgainst]]
  /\ IF ok
       THEN /\ votes' = Append(votes, <<votedFor, votedAgainst>>)
            /\ pc' = [pc EXCEPT ![p] = "read"]
       ELSE /\ votes' = votes
            /\ pc' = [pc EXCEPT ![p] = "failed"]
  /\ UNCHANGED <<heroRatings, winnerRating, loserRating, reads, readFailed,
                 written, batchVars, calcVars, fixVars, clockVars>>

\* One of the two getHeroRating calls of Promise.all returns; they are issued
\* together and answered in either order.  When both have returned,
\* updateHeroRatings goes on to its first write.
ReadRating(p, side, ok) ==
  /\ pc[p] = "read"
  /\ side \notin reads[p]
  /\ reads' = [reads EXCEPT ![p] = @ \cup {side}]
  /\ readFailed' = [readFailed EXCEPT ![p] = IF ok THEN @ ELSE @ \cup {side}]
  /\ IF side = "winner"
       THEN /\ winnerRating' = [winnerRating EXCEPT
                                  ![p] = getHeroRating(input[p].votedFor, ok)]
            /\ loserRating' = loserRating
       ELSE /\ loserRating' = [loserRating EXCEPT
                                 ![p] = getHeroRating(input[p].votedAgainst, ok)]
            /\ winnerRating' = winnerRating
  /\ pc' = [pc EXCEPT ![p] = IF reads'[p] = {"winner", "loser"}
                               THEN "writeWinner" ELSE "read"]
  /\ UNCHANGED <<heroRatings, votes, input, written, calls, batchVars, calcVars, fixVars, clockVars>>

\* "Update winner in Turso"; ok = FALSE: the statement threw, updateHeroRatings
\* rejects and cast-vote's catch returns {success: false}.
WriteWinner(p, ok) ==
  /\ pc[p] = "writeWinner"
  /\ IF ok
       THEN /\ heroRatings' = Upsert(heroRatings,
                 WinnerRow(input[p].votedFor, winnerRating[p], loserRating[p],
                           now))
            /\ written' = [written EXCEPT ![p] = @ \cup {"winner"}]
            /\ pc' = [pc EXCEPT ![p] = "writeLoser"]
       ELSE /\ UNCHANGED <<heroRatings, written>>
            /\ pc' = [pc EXCEPT ![p] = "failed"]
  /\ UNCHANGED <<votes, input, winnerRating, loserRating, reads, readFailed,
                 calls, batchVars, calcVars, fixVars, clockVars>>

\* "Update loser in Turso", then the return of {success: true, ...}.
WriteLoser(p, ok) ==
  /\ pc[p] = "writeLoser"
  /\ IF ok
       THEN /\ heroRatings' = Upsert(heroRatings,
                 LoserRow(input[p].votedAgainst, winnerRating[p], loserRating[p],
                          now))
            /\ written' = [written EXCEPT ![p] = @ \cup {"loser"}]
            /\ pc' = [pc EXCEPT ![p] = "done"]
       ELSE /\ UNCHANGED <<heroRatings, written>>
            /\ pc' = [pc EXCEPT ![p] = "failed"]
  /\ UNCHANGED <<votes, input, winnerRating, loserRating, reads, readFailed,
                 calls, batchVars, calcVars, fixVars, clockVars>>

\* The response has been delivered; the slot serves the next request.
Respond(p) ==
  /\ pc[p] \in {"done", "failed"}
  /\ pc' = [pc EXCEPT ![p] = "idle"]
  /\ input' = [input EXCEPT ![p] = NoInput]
  /\ winnerRating' = [winnerRating EXCEPT ![p] = createDefaultHeroRating(0)]
  /\ loserRating' = [loserRating EXCEPT ![p] = createDefaultHeroRating(0)]
  /\ reads' = [reads EXCEPT ![p] = {}]
  /\ readFailed' = [readFailed EXCEPT ![p] = {}]
  /\ written' = [written EXCEPT ![p] = {}]
  /\ UNCHANGED <<heroRatings, votes, calls, batchVars, calcVars, fixVars, clockVars>>

\* What a cast-vote request that has reached "done" returns.
CastVoteResult(p) ==
  LET eloResult == calculateNewRatings(winnerRating[p].rating, loserRating[p].rating,
                                       winnerRating[p].games, loserRating[p].games)
  IN  [success |-> TRUE,
       winnerRatingChange |-> eloResult.winnerChange,
       loserRatingChange |-> eloResult.loserChange,
       winnerNewRating |-> eloResult.newWinnerRating,
       loserNewRating |-> eloResult.newLoserRating]

NoRatingsMap == [keys |-> <<>>, val |-> EmptyMap]
NoQuery == [dryRun |-> FALSE, force |-> FALSE]

LiveIdle ==
  /\ pc = [p \in Procs |-> "idle"]
  /\ input = [p \in Procs |-> NoInput]
  /\ winnerRating = [p \in Procs |-> createDefaultHeroRating(0)]
  /\ loserRating = [p \in Procs |-> createDefaultHeroRating(0)]
  /\ reads = [p \in Procs |-> {}]
  /\ readFailed = [p \in Procs |-> {}]
  /\ written = [p \in Procs |-> {}]
  /\ calls = 0

RepairIdle ==
  /\ fpc = "idle"
  /\ found = {}
  /\ fixRuns = 0
  /\ fixDone = FALSE

LiveInit ==
  /\ heroRatings = EmptyMap
  /\ votes = <<>>
  /\ now = 0
  /\ LiveIdle
  /\ RepairIdle

BatchIdle ==
  /\ fsRatings = EmptyMap
  /\ mpc = "idle"
  /\ query = NoQuery
  /\ fetched = <<>>
  /\ ratings = NoRatingsMap
  /\ existingDocs = EmptyMap
  /\ pending = <<>>
  /\ response = <<>>
  /\ lastGood = <<>>
  /\ runs = 0
  /\ calc = <<>>

\* The live path under concurrent requests and storage failures.
Init == LiveInit /\ BatchIdle /\ fsVotes = <<>>

Next ==
  \E p \in Procs :
    \/ \E w \in Heroes, l \in Heroes, ok \in BOOLEAN : CastVote(p, w, l, ok)
    \/ \E side \in {"winner", "loser"}, ok \in BOOLEAN : ReadRating(p, side, ok)
    \/ \E ok \in BOOLEAN : WriteWinner(p, ok)
    \/ \E ok \in BOOLEAN : WriteLoser(p, ok)
    \/ Respond(p)

Spec == Init /\ [][Next]_vars

\* The database clock moves on between any two steps.
Tick ==
  /\ now < MaxNow
  /\ now' = now + 1
  /\ UNCHANGED <<liveVars, batchVars, calcVars, fixVars>>

\* The live path serving one request at a time with the store available.
SeqNext ==
  \/ Tick
  \/ \E w \in Heroes, l \in Heroes : CastVote(1, w, l, TRUE)
  \/ \E side \in {"winner", "loser"} : ReadRating(1, side, TRUE)
  \/ WriteWinner(1, TRUE)
  \/ WriteLoser(1, TRUE)
  \/ Respond(1)

SpecSeq == Init /\ [][SeqNext]_vars

\* ------------------------------------------------------------ batch path

BATCH_SIZE == 500

\* A vote document's createdAt is optional: <<>> when the field is missing,
\* <<t>> otherwise.  createTime?.getTime() ?? 0
TimeOf(vote) == IF vote.createdAt = <<>> THEN 0 ELSE vote.createdAt[1]

\* CompareVotes with its operands swapped: newest first.
CompareVotesDescending(a, b) == TimeOf(b) - TimeOf(a)

\* The comparator handed to votes.sort: negative when a goes first.
CompareVotes(a, b) == TimeOf(a) - TimeOf(b)

\* Array.prototype.sort is stable: an element goes after every element
\* already placed that does not compare greater than it.
RECURSIVE InsertVote(_, _)
InsertVote(sorted, v) ==
  IF sorted = <<>> THEN <<v>>
  ELSE LET last == sorted[Len(sorted)]
       IN  IF CompareVotes(last, v) > 0
             THEN Append(InsertVote(SubSeq(sorted, 1, Len(sorted) - 1), v), last)
             ELSE Append(sorted, v)

RECURSIVE SortVotes(_)
SortVotes(list) ==
  IF list = <<>> THEN <<>>
  ELSE InsertVote(SortVotes(SubSeq(list, 1, Len(list) - 1)), list[Len(list)])

\* fetchAllVotes: the collection in the order the store returns it, sorted by
\* creation time.
fetchAllVotes(collection) == SortVotes(collection)

\* The ids of a collection in document order.
RECURSIVE DocIds(_)
DocIds(ids) ==
  IF ids = {} THEN <<>>
  ELSE LET h == CHOOSE x \in ids : \A y \in ids : x <= y
       IN  <<h>> \o DocIds(ids \ {h})

\* getOrCreateRating handing out a fresh record on every call.
getOrCreateRatingFresh(map, heroId) ==
  [keys |-> IF heroId \in DOMAIN map.val THEN map.keys
            ELSE Append(map.keys, heroId),
   val |-> (heroId :> createDefaultHeroRating(heroId)) @@ map.val]

getOrCreateRating(map, heroId) ==
  IF heroId \in DOMAIN map.val
    THEN map
    ELSE [keys |-> Append(map.keys, heroId),
          val |-> (heroId :> createDefaultHeroRating(heroId)) @@ map.val]

\* processVote with the winner's streak counted on from a losing run.
processVoteStreakCountsOn(map, winnerId, loserId) ==
  LET m0 == getOrCreateRating(getOrCreateRating(map, winnerId), loserId)
      result == calculateNewRatings(m0.val[winnerId].rating, m0.val[loserId].rating,
                                    m0.val[winnerId].games, m0.val[loserId].games)
      w0 == m0.val[winnerId]
      winner == [w0 EXCEPT
                   !.rating = result.newWinnerRating,
                   !.games = w0.games + 1,
                   !.wins = w0.wins + 1,
                   !.peakRating = Max(w0.peakRating, result.newWinnerRating),
                   !.lowestRating = Min(w0.lowestRating, result.newWinnerRating),
                   !.currentStreak = w0.currentStreak + 1]
      v1 == [m0.val EXCEPT ![winnerId] = winner]
      l0 == v1[loserId]
      loser == [l0 EXCEPT
                  !.rating = result.newLoserRating,
                  !.games = l0.games + 1,
                  !.losses = l0.losses + 1,
                  !.peakRating = Max(l0.peakRating, result.newLoserRating),
                  !.lowestRating = Min(l0.lowestRating, result.newLoserRating),
                  !.currentStreak = IF l0.currentStreak <= 0
                                      THEN l0.currentStreak - 1 ELSE -1]
  IN  [keys |-> m0.keys, val |-> [v1 EXCEPT ![loserId] = loser]]

\* processVote mutates the winner's object, then the loser's.
processVote(map, winnerId, loserId) ==
  LET m0 == getOrCreateRating(getOrCreateRating(map, winnerId), loserId)
      result == calculateNewRatings(m0.val[winnerId].rating, m0.val[loserId].rating,
                                    m0.val[winnerId].games, m0.val[loserId].games)
      w0 == m0.val[winnerId]
      winner == [w0 EXCEPT
                   !.rating = result.newWinnerRating,
                   !.games = w0.games + 1,
                   !.wins = w0.wins + 1,
                   !.peakRating = Max(w0.peakRating, result.newWinnerRating),
                   !.lowestRating = Min(w0.lowestRating, result.newWinnerRating),
                   !.currentStreak = IF w0.currentStreak >= 0
                                       THEN w0.currentStreak + 1 ELSE 1]
      v1 == [m0.val EXCEPT ![winnerId] = winner]
      l0 == v1[loserId]
      loser == [l0 EXCEPT
                  !.rating = result.newLoserRating,
                  !.games = l0.games + 1,
                  !.losses = l0.losses + 1,
                  !.peakRating = Max(l0.peakRating, result.newLoserRating),
                  !.lowestRating = Min(l0.lowestRating, result.newLoserRating),
                  !.currentStreak = IF l0.currentStreak <= 0
                                      THEN l0.currentStreak - 1 ELSE -1]
  IN  [keys |-> m0.keys, val |-> [v1 EXCEPT ![loserId] = loser]]

\* A field of a vote document as JavaScript sees it: a number, or a value
\* of another type (the string spelling the number).
NumberId(n) == [type |-> "number", value |-> n]
StringId(n) == [type |-> "string", value |-> n]
TypeOf(x) == x.type

\* The handler's loop over the fetched votes: invalid votes are skipped
\* with a console.warn.
RECURSIVE ProcessAll(_, _)
ProcessAll(map, list) ==
  IF list = <<>> THEN map
  ELSE LET vote == Head(list)
       IN  IF \/ TypeOf(vote.votedFor) # "number"
              \/ TypeOf(vote.votedAgainst) # "number"
              \/ vote.votedFor = vote.votedAgainst
             THEN ProcessAll(map, Tail(list))
             ELSE ProcessAll(processVote(map, vote.votedFor.value,
                                         vote.votedAgainst.value),
                             Tail(list))

\* BuildRatings seeded with the documents already in the collection
\* instead of an empty map.
BuildRatingsOntoStore(list) ==
  ProcessAll([keys |-> DocIds(DOMAIN fsRatings),
              val |-> [h \in DOMAIN fsRatings |->
                         [heroId |-> fsRatings[h].heroId,
                          rating |-> fsRatings[h].rating,
                          games |-> fsRatings[h].games,
                          wins |-> fsRatings[h].wins,
                          losses |-> fsRatings[h].losses,
                          peakRating |-> fsRatings[h].peakRating,
                          lowestRating |-> fsRatings[h].lowestRating,
                          currentStreak |-> fsRatings[h].currentStreak]]],
             list)

\* "const ratings: RatingsMap = new Map()" and the loop over the votes.
BuildRatings(list) == ProcessAll(NoRatingsMap, list)

\* The document batch.set writes for one rating.
RatingDoc(rating) ==
  [heroId |-> rating.heroId,
   rating |-> rating.rating,
   games |-> rating.games,
   wins |-> rating.wins,
   losses |-> rating.losses,
   isProvisional |-> isProvisional(rating.games),
   peakRating |-> rating.peakRating,
   lowestRating |-> rating.lowestRating,
   winRate |-> IF rating.games > 0
                 THEN Frac(MathRound(rating.wins * 100 * 100, rating.games), 100)
                 ELSE Frac(0, 1),
   currentStreak |-> rating.currentStreak]

\* The operations one batch commits: the loop commits when BATCH_SIZE
\* operations are queued, and what is left after the loop.
BatchOf(list) == SubSeq(list, 1, Min(BATCH_SIZE, Len(list)))
AfterBatch(list) == SubSeq(list, Min(BATCH_SIZE, Len(list)) + 1, Len(list))
Elems(list) == {list[i] : i \in 1..Len(list)}

\* The bodies the handler answers with (timeMs and topHeroes left out).
MigrationStats(list, map) ==
  [totalVotes |-> Len(list),
   uniqueHeroes |-> Len(map.keys),
   heroesProcessed |-> Len(map.keys)]
SuccessResponse(list, map) ==
  [status |-> 200, success |-> TRUE, stats |-> MigrationStats(list, map)]
RejectedResponse == [status |-> 400, success |-> FALSE]
ErrorResponse == [status |-> 500, success |-> FALSE]

\* The handler calling writeRatingsToFirestore whatever dryRun says.
WritesRatingsAlways(dryRun) == TRUE

\* "if (!dryRun)": whether the handler calls writeRatingsToFirestore.
WritesRatings(dryRun) == ~dryRun

\* POST /api/migrate-elo?dryRun=..&force=..: everything up to the first
\* write.  ok = FALSE: getDb or one of the reads threw, and the catch answers
\* 500.
MigrateRequest(dryRun, force, ok) ==
  /\ mpc = "idle"
  /\ runs < MaxRuns
  /\ runs' = runs + 1
  /\ query' = [dryRun |-> dryRun, force |-> force]
  /\ IF ~ok
       THEN /\ mpc' = "failed"
            /\ response' = <<ErrorResponse>>
            /\ UNCHANGED <<fetched, ratings, existingDocs, pending>>
       ELSE IF ~force /\ DOMAIN fsRatings # {}
       THEN /\ mpc' = "rejected"
            /\ response' = <<RejectedResponse>>
            /\ UNCHANGED <<fetched, ratings, existingDocs, pending>>
       ELSE LET list == fetchAllVotes(fsVotes)
                map == BuildRatings(list)
            IN  /\ fetched' = list
                /\ IF Len(list) = 0
                     THEN /\ mpc' = "noVotes"
                          /\ response' = <<SuccessResponse(<<>>, NoRatingsMap)>>
                          /\ UNCHANGED <<ratings, existingDocs, pending>>
                     ELSE /\ ratings' = map
                          /\ IF ~WritesRatings(dryRun)
                               THEN /\ mpc' = "dryRunDone"
                                    /\ response' = <<SuccessResponse(list, map)>>
                                    /\ UNCHANGED <<existingDocs, pending>>
                               ELSE /\ existingDocs' = fsRatings
                                    /\ IF DOMAIN fsRatings # {}
                                         THEN /\ mpc' = "delete"
                                              /\ pending' = DocIds(DOMAIN fsRatings)
                                              /\ response' = <<>>
                                         ELSE IF map.keys # <<>>
                                         THEN /\ mpc' = "write"
                                              /\ pending' = map.keys
                                              /\ response' = <<>>
                                         ELSE /\ mpc' = "done"
                                              /\ pending' = <<>>
                                              /\ response' = <<SuccessResponse(list, map)>>
  /\ UNCHANGED <<fsVotes, fsRatings, lastGood, liveVars, calcVars, fixVars, clockVars>>

\* deleteBatch.commit(); ok = FALSE: it threw.
DeleteCommit(ok) ==
  /\ mpc = "delete"
  /\ IF ok
       THEN /\ fsRatings' = [h \in DOMAIN fsRatings \ Elems(BatchOf(pending))
                               |-> fsRatings[h]]
            /\ IF AfterBatch(pending) # <<>>
                 THEN /\ pending' = AfterBatch(pending)
                      /\ mpc' = "delete"
                      /\ response' = <<>>
                 ELSE IF ratings.keys # <<>>
                 THEN /\ pending' = ratings.keys
                      /\ mpc' = "write"
                      /\ response' = <<>>
                 ELSE /\ pending' = <<>>
                      /\ mpc' = "done"
                      /\ response' = <<SuccessResponse(fetched, ratings)>>
       ELSE /\ mpc' = "writeFailed"
            /\ response' = <<ErrorResponse>>
            /\ UNCHANGED <<fsRatings, pending>>
  /\ UNCHANGED <<fsVotes, query, fetched, ratings, existingDocs, lastGood,
                 runs, liveVars, calcVars, fixVars, clockVars>>

\* batch.commit(); ok = FALSE: it threw.
WriteCommit(ok) ==
  /\ mpc = "write"
  /\ IF ok
       THEN /\ fsRatings' = [h \in Elems(BatchOf(pending))
                               |-> RatingDoc(ratings.val[h])] @@ fsRatings
            /\ pending' = AfterBatch(pending)
            /\ mpc' = IF AfterBatch(pending) # <<>> THEN "write" ELSE "done"
            /\ response' = IF AfterBatch(pending) # <<>>
                             THEN <<>> ELSE <<SuccessResponse(fetched, ratings)>>
       ELSE /\ mpc' = "writeFailed"
            /\ response' = <<ErrorResponse>>
            /\ UNCHANGED <<fsRatings, pending>>
  /\ UNCHANGED <<fsVotes, query, fetched, ratings, existingDocs, lastGood,
                 runs, liveVars, calcVars, fixVars, clockVars>>

\* The response has been sent; the next request finds the handler idle.
MigrateRespond ==
  /\ mpc \in {"done", "dryRunDone", "noVotes", "rejected", "failed", "writeFailed"}
  /\ mpc' = "idle"
  /\ lastGood' = IF mpc = "done" THEN <<fsRatings>> ELSE lastGood
  /\ query' = NoQuery
  /\ fetched' = <<>>
  /\ ratings' = NoRatingsMap
  /\ existingDocs' = EmptyMap
  /\ pending' = <<>>
  /\ response' = <<>>
  /\ UNCHANGED <<fsVotes, fsRatings, runs, liveVars, calcVars, fixVars, clockVars>>

\* Firestore does not type its fields: next to the hero ids a document may
\* hold a value that is not a number.
VoteIds == {NumberId(h) : h \in Heroes} \cup {StringId(1)}
CreatedAts == {<<>>} \cup {<<t>> : t \in 1..MaxTime}
VoteDocuments ==
  [votedFor : VoteIds, votedAgainst : VoteIds, createdAt : CreatedAts]

RECURSIVE SeqsUpTo(_, _)
SeqsUpTo(S, n) ==
  IF n = 0 THEN {<<>>}
  ELSE LET shorter == SeqsUpTo(S, n - 1)
       IN  shorter \cup {Append(q, x) : q \in {r \in shorter : Len(r) = n - 1}, x \in S}

\* The batch path over any votes collection of at most MaxFsVotes documents.
BatchInit ==
  /\ LiveInit
  /\ BatchIdle
  /\ fsVotes \in SeqsUpTo(VoteDocuments, MaxFsVotes)

BatchNext ==
  \/ \E dryRun \in BOOLEAN, force \in BOOLEAN, ok \in BOOLEAN :
       MigrateRequest(dryRun, force, ok)
  \/ \E ok \in BOOLEAN : DeleteCommit(ok)
  \/ \E ok \in BOOLEAN : WriteCommit(ok)
  \/ MigrateRespond

SpecBatch == BatchInit /\ [][BatchNext]_vars

\* ------------------------------------------------------- utility functions

\* The calculator's callers hand it the ratings and games of stored records,
\* and optionally a Partial<EloConfig>.
CalcWinnerRatings ==
  {DEFAULT_ELO_CONFIG.initialRating - MaxRatingDiff,
   DEFAULT_ELO_CONFIG.initialRating,
   DEFAULT_ELO_CONFIG.initialRating + MaxRatingDiff}
CalcGames ==
  {0} \cup {DEFAULT_ELO_CONFIG.provisionalThreshold + o :
              o \in (-MaxGamesOffset)..MaxGamesOffset}
OverrideKs == {DEFAULT_ELO_CONFIG.kFactor + 1, DEFAULT_ELO_CONFIG.provisionalKFactor}
EloOverrides ==
  {EmptyMap}
    \cup {[kFactor |-> k] : k \in OverrideKs}
    \cup {[provisionalKFactor |-> k] : k \in OverrideKs}
    \cup {[kFactor |-> k, provisionalKFactor |-> pk] : k \in OverrideKs, pk \in OverrideKs}

\* expectedScore in units of 1e-9, for the claims about the score itself:
\* ExpectedNanoTable[d + 401] is 1 / (1 + Math.pow(10, d / 400)) as IEEE
\* double arithmetic evaluates it, times NanoScale, rounded to the nearest
\* integer, for every d = ratingB - ratingA in -400..400.  Each direction is
\* tabulated from its own evaluation.
NanoScale == 10^9
ExpectedNanoTable == <<
    909090909, 908614047, 908134936, 907653568, 907169936, 906684032, 906195847, 905705374,
    905212604, 904717530, 904220144, 903720438, 903218404, 902714034, 902207320, 901698255,
    901186829, 900673036, 900156867, 899638315, 899117372, 898594029, 898068279, 897540114,
    897009526, 896476508, 895941051, 895403147, 894862790, 894319970, 893774680, 893226913,
    892676660, 892123914, 891568667, 891010911, 890450639, 889887842, 889322514, 888754646,
    888184230, 887611260, 887035727, 886457624, 885876943, 885293676, 884707816, 884119356,
    883528288, 882934604, 882338297, 881739359, 881137784, 880533562, 879926688, 879317153,
    878704951, 878090074, 877472514, 876852265, 876229319, 875603669, 874975307, 874344227,
    873710421, 873073882, 872434604, 871792578, 871147798, 870500258, 869849949, 869196865,
    868541000, 867882346, 867220896, 866556644, 865889582, 865219705, 864547005, 863871476,
    863193111, 862511904, 861827848, 861140936, 860451162, 859758519, 859063002, 858364604,
    857663319, 856959139, 856252060, 855542075, 854829178, 854113362, 853394622, 852672952,
    851948346, 851220798, 850490302, 849756852, 849020443, 848281069, 847538724, 846793403,
    846045100, 845293811, 844539528, 843782248, 843021964, 842258672, 841492367, 840723043,
    839950695, 839175318, 838396907, 837615458, 836830966, 836043426, 835252832, 834459182,
    833662469, 832862690, 832059841, 831253916, 830444911, 829632823, 828817648, 827999380,
    827178017, 826353554, 825525987, 824695313, 823861529, 823024629, 822184611, 821341472,
    820495207, 819645814, 818793290, 817937631, 817078834, 816216897, 815351815, 814483588,
    813612211, 812737682, 811859998, 810979158, 810095159, 809207997, 808317673, 807424182,
    806527523, 805627694, 804724693, 803818519, 802909170, 801996644, 801080940, 800162056,
    799239991, 798314744, 797386314, 796454700, 795519900, 794581915, 793640743, 792696384,
    791748838, 790798103, 789844180, 788887068, 787926768, 786963279, 785996602, 785026737,
    784053684, 783077443, 782098016, 781115403, 780129604, 779140621, 778148454, 777153105,
    776154575, 775152866, 774147978, 773139913, 772128673, 771114261, 770096677, 769075923,
    768052003, 767024918, 765994671, 764961264, 763924699, 762884980, 761842110, 760796091,
    759746927, 758694620, 757639175, 756580594, 755518882, 754454042, 753386078, 752314994,
    751240794, 750163482, 749083063, 747999541, 746912921, 745823208, 744730407, 743634522,
    742535559, 741433523, 740328420, 739220254, 738109033, 736994761, 735877444, 734757089,
    733633702, 732507290, 731377858, 730245413, 729109963, 727971514, 726830072, 725685646,
    724538243, 723387869, 722234534, 721078243, 719919006, 718756830, 717591723, 716423694,
    715252751, 714078903, 712902157, 711722524, 710540012, 709354631, 708166388, 706975295,
    705781360, 704584593, 703385003, 702182602, 700977399, 699769403, 698558626, 697345079,
    696128770, 694909713, 693687916, 692463393, 691236152, 690006207, 688773569, 687538248,
    686300258, 685059609, 683816314, 682570385, 681321835, 680070676, 678816920, 677560580,
    676301669, 675040201, 673776188, 672509643, 671240581, 669969014, 668694956, 667418422,
    666139425, 664857979, 663574098, 662287797, 660999091, 659707994, 658414521, 657118686,
    655820506, 654519994, 653217167, 651912040, 650604628, 649294947, 647983013, 646668842,
    645352450, 644033854, 642713069, 641390112, 640065000, 638737749, 637408377, 636076900,
    634743335, 633407700, 632070012, 630730289, 629388547, 628044806, 626699082, 625351393,
    624001759, 622650196, 621296723, 619941359, 618584122, 617225031, 615864104, 614501361,
    613136820, 611770501, 610402422, 609032603, 607661064, 606287824, 604912902, 603536319,
    602158093, 600778246, 599396797, 598013766, 596629173, 595243040, 593855385, 592466231,
    591075596, 589683503, 588289972, 586895023, 585498679, 584100959, 582701885, 581301478,
    579899760, 578496752, 577092476, 575686952, 574280204, 572872251, 571463117, 570052824,
    568641392, 567228844, 565815203, 564400490, 562984728, 561567939, 560150145, 558731369,
    557311634, 555890961, 554469374, 553046895, 551623547, 550199353, 548774336, 547348518,
    545921923, 544494573, 543066492, 541637703, 540208228, 538778092, 537347317, 535915927,
    534483945, 533051394, 531618298, 530184680, 528750564, 527315973, 525880931, 524445461,
    523009587, 521573333, 520136722, 518699778, 517262524, 515824985, 514387184, 512949145,
    511510891, 510072447, 508633836, 507195082, 505756208, 504317240, 502878200, 501439112,
    500000000, 498560888, 497121800, 495682760, 494243792, 492804918, 491366164, 489927553,
    488489109, 487050855, 485612816, 484175015, 482737476, 481300222, 479863278, 478426667,
    476990413, 475554539, 474119069, 472684027, 471249436, 469815320, 468381702, 466948606,
    465516055, 464084073, 462652683, 461221908, 459791772, 458362297, 456933508, 455505427,
    454078077, 452651482, 451225664, 449800647, 448376453, 446953105, 445530626, 444109039,
    442688366, 441268631, 439849855, 438432061, 437015272, 435599510, 434184797, 432771156,
    431358608, 429947176, 428536883, 427127749, 425719796, 424313048, 422907524, 421503248,
    420100240, 418698522, 417298115, 415899041, 414501321, 413104977, 411710028, 410316497,
    408924404, 407533769, 406144615, 404756960, 403370827, 401986234, 400603203, 399221754,
    397841907, 396463681, 395087098, 393712176, 392338936, 390967397, 389597578, 388229499,
    386863180, 385498639, 384135896, 382774969, 381415878, 380058641, 378703277, 377349804,
    375998241, 374648607, 373300918, 371955194, 370611453, 369269711, 367929988, 366592300,
    365256665, 363923100, 362591623, 361262251, 359935000, 358609888, 357286931, 355966146,
    354647550, 353331158, 352016987, 350705053, 349395372, 348087960, 346782833, 345480006,
    344179494, 342881314, 341585479, 340292006, 339000909, 337712203, 336425902, 335142021,
    333860575, 332581578, 331305044, 330030986, 328759419, 327490357, 326223812, 324959799,
    323698331, 322439420, 321183080, 319929324, 318678165, 317429615, 316183686, 314940391,
    313699742, 312461752, 311226431, 309993793, 308763848, 307536607, 306312084, 305090287,
    303871230, 302654921, 301441374, 300230597, 299022601, 297817398, 296614997, 295415407,
    294218640, 293024705, 291833612, 290645369, 289459988, 288277476, 287097843, 285921097,
    284747249, 283576306, 282408277, 281243170, 280080994, 278921757, 277765466, 276612131,
    275461757, 274314354, 273169928, 272028486, 270890037, 269754587, 268622142, 267492710,
    266366298, 265242911, 264122556, 263005239, 261890967, 260779746, 259671580, 258566477,
    257464441, 256365478, 255269593, 254176792, 253087079, 252000459, 250916937, 249836518,
    248759206, 247685006, 246613922, 245545958, 244481118, 243419406, 242360825, 241305380,
    240253073, 239203909, 238157890, 237115020, 236075301, 235038736, 234005329, 232975082,
    231947997, 230924077, 229903323, 228885739, 227871327, 226860087, 225852022, 224847134,
    223845425, 222846895, 221851546, 220859379, 219870396, 218884597, 217901984, 216922557,
    215946316, 214973263, 214003398, 213036721, 212073232, 211112932, 210155820, 209201897,
    208251162, 207303616, 206359257, 205418085, 204480100, 203545300, 202613686, 201685256,
    200760009, 199837944, 198919060, 198003356, 197090830, 196181481, 195275307, 194372306,
    193472477, 192575818, 191682327, 190792003, 189904841, 189020842, 188140002, 187262318,
    186387789, 185516412, 184648185, 183783103, 182921166, 182062369, 181206710, 180354186,
    179504793, 178658528, 177815389, 176975371, 176138471, 175304687, 174474013, 173646446,
    172821983, 172000620, 171182352, 170367177, 169555089, 168746084, 167940159, 167137310,
    166337531, 165540818, 164747168, 163956574, 163169034, 162384542, 161603093, 160824682,
    160049305, 159276957, 158507633, 157741328, 156978036, 156217752, 155460472, 154706189,
    153954900, 153206597, 152461276, 151718931, 150979557, 150243148, 149509698, 148779202,
    148051654, 147327048, 146605378, 145886638, 145170822, 144457925, 143747940, 143040861,
    142336681, 141635396, 140936998, 140241481, 139548838, 138859064, 138172152, 137488096,
    136806889, 136128524, 135452995, 134780295, 134110418, 133443356, 132779104, 132117654,
    131459000, 130803135, 130150051, 129499742, 128852202, 128207422, 127565396, 126926118,
    126289579, 125655773, 125024693, 124396331, 123770681, 123147735, 122527486, 121909926,
    121295049, 120682847, 120073312, 119466438, 118862216, 118260641, 117661703, 117065396,
    116471712, 115880644, 115292184, 114706324, 114123057, 113542376, 112964273, 112388740,
    111815770, 111245354, 110677486, 110112158, 109549361, 108989089, 108431333, 107876086,
    107323340, 106773087, 106225320, 105680030, 105137210, 104596853, 104058949, 103523492,
    102990474, 102459886, 101931721, 101405971, 100882628, 100361685, 99843133, 99326964,
    98813171, 98301745, 97792680, 97285966, 96781596, 96279562, 95779856, 95282470,
    94787396, 94294626, 93804153, 93315968, 92830064, 92346432, 91865064, 91385953,
    90909091
>>

\* expectedScore evaluated one rating point off.
expectedScoreNanoOffByOne(ratingA, ratingB) ==
  ExpectedNanoTable[(ratingB - ratingA) + (Len(ExpectedNanoTable) + 1) \div 2 + 1]

expectedScoreNano(ratingA, ratingB) ==
  ExpectedNanoTable[(ratingB - ratingA) + (Len(ExpectedNanoTable) + 1) \div 2]

\* A call of expectedScore and what it returns.
ApplyExpectedScore(ratingA, ratingB) ==
  /\ calc = <<>>
  /\ calc' = <<[fn |-> "expectedScore",
                args |-> [ratingA |-> ratingA, ratingB |-> ratingB],
                result |-> expectedScoreNano(ratingA, ratingB)]>>
  /\ UNCHANGED <<liveVars, batchVars, fixVars, clockVars>>

\* A call of calculateNewRatings and what it returns.
ApplyCalculateNewRatings(wRating, lRating, wGames, lGames, config) ==
  /\ calc = <<>>
  /\ calc' = <<[fn |-> "calculateNewRatings",
                args |-> [winnerRating |-> wRating, loserRating |-> lRating,
                          winnerGames |-> wGames, loserGames |-> lGames,
                          config |-> config],
                result |-> calculateNewRatingsWith(wRating, lRating,
                                                   wGames, lGames, config)]>>
  /\ UNCHANGED <<liveVars, batchVars, fixVars, clockVars>>

\* A call of getKFactor and what it returns.
ApplyGetKFactor(games, config) ==
  /\ calc = <<>>
  /\ calc' = <<[fn |-> "getKFactor",
                args |-> [games |-> games, config |-> config],
                result |-> getKFactor(games, config)]>>
  /\ UNCHANGED <<liveVars, batchVars, fixVars, clockVars>>

\* ---------------------------------------------------- confidence estimator

\* Confidence levels are written in percent (0.95 is 95) and z-scores in
\* thousandths (1.96 is 1960).  "zScores[confidenceLevel] || 1.96"
getZScore(confidenceLevel) ==
  LET zScores == (90 :> 1645) @@ (95 :> 1960) @@ (99 :> 2576)
  IN  IF confidenceLevel \in DOMAIN zScores THEN zScores[confidenceLevel] ELSE 1960

\* The interval's endpoints in units of 1e-9, as IEEE double arithmetic
\* evaluates the source's expressions
\*   p = wins / games, z2 = z * z, denominator = 1 + z2 / games,
\*   centerAdjustment = p + z2 / (2 * games),
\*   marginOfError = z * Math.sqrt((p * (1 - p) + z2 / (4 * games)) / games),
\*   (centerAdjustment -+ marginOfError) / denominator
\* for games in 1..16 and wins in 0..games: Wilson..Table[z][games][wins + 1].
\* The lower endpoint is rounded down and the upper endpoint up to a whole
\* unit, so that an endpoint outside [0, 1] stays outside.
WilsonLowerTable ==
  (1645 :> <<
     <<0, 269830883>>,
     <<0, 120851980, 424987117>>,
     <<0, 78256615, 253509966, 525760051>>,
     <<0, 57900635, 182383304, 356139905, 596478539>>,
     <<0, 45957171, 142693399, 272461989, 435262942, 648842950>>,
     <<0, 38101203, 117265405, 221242891, 346991371, 497553135, 689177896>>,
     <<0, 32540080, 99556799, 186428831, 289457620, 408643165, 547684024, 721201521>>,
     <<0, 28396081, 86507003, 161159949, 248625175, 347970647, 460128398, 588828174, 747242790>>,
     <<-1, 25188599, 76487816, 141960003, 218032393, 303458487, 398238287, 503618289, 623171262,
       768834852>>,
     <<0, 22632329, 68551792, 126866852, 194213931, 269255661, 351619571, 441678133, 540768713,
       652254890, 787028201>>,
     <<0, 20547191, 62109645, 114685338, 175124948, 242090407, 315051021, 394006790, 479488408,
       572833943, 677192717, 802566754>>,
     <<0, 18813908, 56775431, 104644548, 159474613, 219964631, 285519281, 355963311, 431471975,
       512640590, 600770154, 698807312, 815992084>>,
     <<-1, 17350338, 52285727, 96224376, 146405530, 201580442, 261133485, 324803319, 392589943,
       464754699, 541913212, 625314231, 717718509, 827707838>>,
     <<0, 16098065, 48454548, 89060952, 135324892, 186054738, 240636502, 298766934, 360353790,
       425489313, 494476755, 567930103, 647040986, 734401791, 838021013>>,
     <<0, 15014407, 45146821, 82891957, 125809262, 172764268, 223155639, 276661494, 333139444,
       392589490, 455154019, 521154914, 591193510, 666404275, 749227761, 847169254>>,
     <<0, 14067455, 42262071, 77523444, 117547885, 161255896, 208064171, 257644975, 309828622,
       364562398, 421899018, 482008167, 545217580, 612110563, 683766613, 762489421, 855339389>>>>) @@
  (1960 :> <<
     <<0, 206543291>>,
     <<0, 94528654, 342371952>>,
     <<0, 61490315, 207654955, 438493919>>,
     <<0, 45586062, 150035708, 300636052, 510099979>>,
     <<0, 36223160, 117618231, 230719932, 375528264, 565508505>>,
     <<0, 30052585, 96769332, 187612806, 299988321, 436490563, 609656966>>,
     <<0, 25678955, 82217165, 158216922, 250454230, 358929090, 486865496, 645661157>>,
     <<0, 22416908, 71477688, 136841759, 215212526, 305737854, 409269879, 529105194, 675584380>>,
     <<0, 19890371, 63223762, 120581598, 188775429, 266647345, 354197347, 452583343, 564993785,
       700847246>>,
     <<0, 17875749, 56680947, 107789287, 168177581, 236589593, 312669547, 396773219, 490156846,
       595843614, 722459831>>,
     <<0, 16231752, 51366600, 97458805, 151662236, 212709575, 280087755, 353796776, 434349706,
       523013862, 622635374, 741159982>>,
     <<0, 14864709, 46964147, 88940039, 138117839, 193257461, 253778170, 319507335, 390617587,
       467689660, 551963642, 646114078, 757499242>>,
     <<0, 13710066, 43257263, 81793790, 126804971, 177094465, 232057543, 291434324, 355224809,
       423688878, 497431260, 577648294, 666854660, 771898156>>,
     <<0, 12721886, 40093073, 75712483, 117211879, 163444907, 213805099, 267988679, 325902669,
       387640046, 453504588, 524102762, 600580922, 685307304, 784682988>>,
     <<-1, 11866588, 37360469, 70474206, 108972761, 151761006, 198242280, 248092252, 301166301,
       357464427, 417131251, 480491103, 548140646, 621175007, 701829224, 796110733>>,
     <<0, 11119057, 34976749, 65914787, 101819019, 141644350, 184809825, 230983633, 279992376,
       331781956, 386406470, 444039318, 505012310, 569906401, 639766685, 716707316, 806386581>>>>) @@
  (2576 :> <<
     <<0, 130962458>>,
     <<0, 61706350, 231594705>>,
     <<0, 40422287, 144202200, 311339740>>,
     <<0, 30062388, 105059863, 218106965, 376089154>>,
     <<0, 23931119, 82700203, 168642043, 281756640, 429709200>>,
     <<0, 19877698, 68208838, 137661148, 226489580, 336439182, 474842225>>,
     <<0, 16998738, 58046867, 116364123, 189700617, 278056348, 383681206, 513355455>>,
     <<0, 14848322, 50523828, 100802336, 163327234, 237453785, 323826726, 424802670, 546605796>>,
     <<0, 13180937, 44728898, 88925603, 143452678, 207408570, 280793279, 364508357, 460872181,
       575603027>>,
     <<0, 11850253, 40127510, 79559868, 127921107, 184212939, 248143933, 320005520, 400795987,
       492741556, 601114128>>,
     <<0, 10763629, 36385117, 71983143, 115441208, 165736670, 222439590, 285549969, 355497744,
       433305559, 521089912, 623732122>>,
     <<0, 9859557, 33281587, 65726570, 105189974, 150659118, 201638953, 257979575, 319830888,
       387687941, 462563416, 546461843, 643922743>>,
     <<0, 9095597, 30666122, 60472232, 96617127, 138114459, 184441782, 235369232, 290896809,
       351254377, 416964382, 489013172, 569297547, 662056849>>,
     <<0, 8441518, 28431938, 55996850, 89340379, 127509951, 169975953, 216465793, 266895012,
       321348069, 380097558, 443673087, 513027236, 589955874, 678433415>>,
     <<0, 7875203, 26501299, 52138961, 83085680, 118425470, 157632661, 200412820, 246632563,
       296291889, 349524183, 406623879, 468116645, 534918468, 608731858, 693296140>>,
     <<0, 7380098, 24816258, 48778888, 77651341, 110554610, 146973076, 186602622, 229281354,
       274958329, 323684490, 375621732, 431074170, 490557425, 554950502, 625870049, 706845658>>>>)

WilsonUpperTable ==
  (1645 :> <<
     <<730169117, 1000000001>>,
     <<575012883, 879148020, 1000000000>>,
     <<474239949, 746490034, 921743385, 1000000000>>,
     <<403521461, 643860095, 817616696, 942099365, 1000000000>>,
     <<351157050, 564737058, 727538011, 857306601, 954042829, 1000000000>>,
     <<310822104, 502446865, 653008629, 778757109, 882734595, 961898797, 1000000000>>,
     <<278798479, 452315976, 591356835, 710542380, 813571169, 900443201, 967459920, 1000000000>>,
     <<252757210, 411171826, 539871602, 652029353, 751374825, 838840051, 913492997, 971603919,
       1000000000>>,
     <<231165148, 376828738, 496381711, 601761713, 696541513, 781967607, 858039997, 923512184,
       974811401, 1000000000>>,
     <<212971799, 347745110, 459231287, 558321867, 648380429, 730744339, 805786069, 873133148,
       931448208, 977367671, 1000000000>>,
     <<197433246, 322807283, 427166057, 520511592, 605993210, 684948979, 757909593, 824875052,
       885314662, 937890355, 979452809, 1000000000>>,
     <<184007916, 301192688, 399229846, 487359410, 568528025, 644036689, 714480719, 780035369,
       840525387, 895355452, 943224569, 981186092, 1000000000>>,
     <<172292162, 282281491, 374685769, 458086788, 535245301, 607410057, 675196681, 738866515,
       798419558, 853594470, 903775624, 947714273, 982649662, 1000000001>>,
     <<161978987, 265598209, 352959014, 432069897, 505523245, 574510687, 639646210, 701233066,
       759363498, 813945262, 864675108, 910939048, 951545452, 983901935, 1000000000>>,
     <<152830746, 250772239, 333595725, 408806490, 478845086, 544845981, 607410510, 666860556,
       723338506, 776844361, 827235732, 874190738, 917108043, 954853179, 984985593, 1000000000>>,
     <<144660611, 237510579, 316233387, 387889437, 454782420, 517991833, 578100982, 635437602,
       690171378, 742355025, 791935829, 838744104, 882452115, 922476556, 957737929, 985932545,
       1000000000>>>>) @@
  (1960 :> <<
     <<793456709, 1000000000>>,
     <<657628048, 905471346, 1000000000>>,
     <<561506081, 792345045, 938509685, 1000000000>>,
     <<489900021, 699363948, 849964292, 954413938, 1000000000>>,
     <<434491495, 624471736, 769280068, 882381769, 963776840, 1000000001>>,
     <<390343034, 563509437, 700011679, 812387194, 903230668, 969947415, 1000000000>>,
     <<354338843, 513134504, 641070910, 749545770, 841783078, 917782835, 974321045, 1000000000>>,
     <<324415620, 470894806, 590730121, 694262146, 784787474, 863158241, 928522312, 977583092,
       1000000000>>,
     <<299152754, 435006215, 547416657, 645802653, 733352655, 811224571, 879418402, 936776238,
       980109629, 1000000000>>,
     <<277540169, 404156386, 509843154, 603226781, 687330453, 763410407, 831822419, 892210713,
       943319053, 982124251, 1000000000>>,
     <<258840018, 377364626, 476986138, 565650294, 646203224, 719912245, 787290425, 848337764,
       902541195, 948633400, 983768248, 1000000000>>,
     <<242500758, 353885922, 448036358, 532310340, 609382413, 680492665, 746221830, 806742539,
       861882161, 911059961, 953035853, 985135291, 1000000000>>,
     <<228101844, 333145340, 422351706, 502568740, 576311122, 644775191, 708565676, 767942457,
       822905535, 873195029, 918206210, 956742737, 986289934, 1000000000>>,
     <<215317012, 314692696, 399419078, 475897238, 546495412, 612359954, 674097331, 732011321,
       786194901, 836555093, 882788121, 924287517, 959906927, 987278114, 1000000000>>,
     <<203889267, 298170776, 378824993, 451859354, 519508897, 582868749, 642535573, 698833699,
       751907748, 801757720, 848238994, 891027239, 929525794, 962639531, 988133412, 1000000000>>,
     <<193613419, 283292684, 360233315, 430093599, 494987690, 555960682, 613593530, 668218044,
       720007624, 769016367, 815190175, 858355650, 898180981, 934085213, 965023251, 988880943,
       1000000000>>>>) @@
  (2576 :> <<
     <<869037542, 1000000000>>,
     <<768405295, 938293650, 1000000000>>,
     <<688660260, 855797800, 959577713, 1000000000>>,
     <<623910846, 781893035, 894940137, 969937612, 1000000000>>,
     <<570290800, 718243360, 831357957, 917299797, 976068881, 1000000000>>,
     <<525157775, 663560818, 773510420, 862338852, 931791162, 980122302, 1000000000>>,
     <<486644545, 616318794, 721943652, 810299383, 883635877, 941953133, 983001262, 1000000001>>,
     <<453394204, 575197330, 676173274, 762546215, 836672766, 899197664, 949476172, 985151678,
       1000000000>>,
     <<424396973, 539127819, 635491643, 719206721, 792591430, 856547322, 911074397, 955271102,
       986819063, 1000000000>>,
     <<398885872, 507258444, 599204013, 679994480, 751856067, 815787061, 872078893, 920440132,
       959872490, 988149747, 1000000000>>,
     <<376267878, 478910088, 566694441, 644502256, 714450031, 777560410, 834263330, 884558792,
       928016857, 963614883, 989236371, 1000000000>>,
     <<356077257, 453538157, 537436584, 612312059, 680169112, 742020425, 798361047, 849340882,
       894810026, 934273430, 966718413, 990140443, 1000000000>>,
     <<337943151, 430702453, 510986828, 583035618, 648745623, 709103191, 764630768, 815558218,
       861885541, 903382873, 939527768, 969333878, 990904403, 1000000000>>,
     <<321566585, 410044126, 486972764, 556326913, 619902442, 678651931, 733104988, 783534207,
       830024047, 872490049, 910659621, 944003150, 971568062, 991558482, 1000000000>>,
     <<306703860, 391268142, 465081532, 531883355, 593376121, 650475817, 703708111, 753367437,
       799587180, 842367339, 881574530, 916914320, 947861039, 973498701, 992124797, 1000000000>>,
     <<293154342, 374129951, 445049498, 509442575, 568925830, 624378268, 676315510, 725041671,
       770718646, 813397378, 853026924, 889445390, 922348659, 951221112, 975183742, 992619902,
       1000000000>>>>)

\* wilsonScore answering 0.5 for a record without games.
wilsonScoreNeutral(wins, games, confidenceLevel) ==
  IF games = 0 THEN NanoScale \div 2
  ELSE WilsonLowerTable[getZScore(confidenceLevel)][games][wins + 1]

wilsonScore(wins, games, confidenceLevel) ==
  IF games = 0 THEN 0
  ELSE WilsonLowerTable[getZScore(confidenceLevel)][games][wins + 1]

wilsonScoreInterval(wins, games, confidenceLevel) ==
  IF games = 0 THEN [lower |-> 0, upper |-> 0]
  ELSE [lower |-> WilsonLowerTable[getZScore(confidenceLevel)][games][wins + 1],
        upper |-> WilsonUpperTable[getZScore(confidenceLevel)][games][wins + 1]]

\* getConfidenceLevel with its thresholds excluded.
getConfidenceLevelAbove(games, wins, losses) ==
  IF games > 30 THEN "High"
  ELSE IF games > 10 THEN "Medium"
  ELSE "Low"

getConfidenceLevel(games, wins, losses) ==
  IF games >= 30 THEN "High"
  ELSE IF games >= 10 THEN "Medium"
  ELSE "Low"

\* 0.90, 0.95, 0.99 and a level getZScore does not list.
ConfidenceLevels == {90, 95, 99, 50}

\* A call of wilsonScore and what it returns.
ApplyWilsonScore(wins, games, confidenceLevel) ==
  /\ calc = <<>>
  /\ games = 0 \/ wins <= games
  /\ calc' = <<[fn |-> "wilsonScore",
                args |-> [wins |-> wins, games |-> games,
                          confidenceLevel |-> confidenceLevel],
                result |-> wilsonScore(wins, games, confidenceLevel)]>>
  /\ UNCHANGED <<liveVars, batchVars, fixVars, clockVars>>

\* A call of wilsonScoreInterval and what it returns.
ApplyWilsonScoreInterval(wins, games, confidenceLevel) ==
  /\ calc = <<>>
  /\ games = 0 \/ wins <= games
  /\ calc' = <<[fn |-> "wilsonScoreInterval",
                args |-> [wins |-> wins, games |-> games,
                          confidenceLevel |-> confidenceLevel],
                result |-> wilsonScoreInterval(wins, games, confidenceLevel)]>>
  /\ UNCHANGED <<liveVars, batchVars, fixVars, clockVars>>

\* A call of getConfidenceLevel and what it returns.
ApplyGetConfidenceLevel(games, wins, losses) ==
  /\ calc = <<>>
  /\ calc' = <<[fn |-> "getConfidenceLevel",
                args |-> [games |-> games, wins |-> wins, losses |-> losses],
                result |-> getConfidenceLevel(games, wins, losses)]>>
  /\ UNCHANGED <<liveVars, batchVars, fixVars, clockVars>>

\* The caller has taken the result.
\* ------------------------------------------------------------- pair picker

\* "const max = 731".
max == 731

\* Math.random() returns a number r with 0 <= r < 1; here r is a multiple
\* of 1 / RandomDen, given by its numerator.
RandomDraws == {0, 1, 2, 3, RandomDen - 3, RandomDen - 2, RandomDen - 1}

\* Math.floor(r * (max + 1)).
heroNumOf(r) == (r * (max + 1)) \div RandomDen

\* The parameter notThisOne left out.
undefined == <<>>

RECURSIVE getRandomHero(_, _)
\* getRandomHero(notThisOne) over the values Math.random() returns in turn:
\* the number returned and the values not yet consumed; no number as long as
\* every value drawn gives notThisOne.
getRandomHero(notThisOne, draws) ==
  IF draws = <<>> THEN [value |-> <<>>, rest |-> <<>>]
  ELSE LET heroNum == heroNumOf(Head(draws))
       IN  IF <<heroNum>> # notThisOne
             THEN [value |-> <<heroNum>>, rest |-> Tail(draws)]
             ELSE getRandomHero(notThisOne, Tail(draws))

\* getForVote(): <<[firstId, secondId]>>, or <<>> while the second call has
\* not returned.
getForVote(draws) ==
  LET first == getRandomHero(undefined, draws)
      second == getRandomHero(first.value, first.rest)
  IN  IF first.value = <<>> \/ second.value = <<>>
        THEN <<>>
        ELSE <<first.value \o second.value>>

ApplyGetForVote(draws) ==
  /\ calc = <<>>
  /\ getForVote(draws) # <<>>
  /\ calc' = <<[fn |-> "getForVote",
                args |-> [random |-> draws],
                result |-> getForVote(draws)[1]]>>
  /\ UNCHANGED <<liveVars, batchVars, fixVars, clockVars>>

CalcReturn ==
  /\ calc # <<>>
  /\ calc' = <<>>
  /\ UNCHANGED <<liveVars, batchVars, fixVars, clockVars>>

\* A call is made when none is under way; the test stands in front of the
\* choice of the arguments.
CalcNext ==
  \/ /\ calc = <<>>
     /\ \E wRating \in CalcWinnerRatings, d \in (-MaxRatingDiff)..MaxRatingDiff,
           wGames \in CalcGames, lGames \in CalcGames, config \in EloOverrides :
          ApplyCalculateNewRatings(wRating, wRating + d, wGames, lGames, config)
  \/ /\ calc = <<>>
     /\ \E games \in CalcGames, config \in EloOverrides : ApplyGetKFactor(games, config)
  \/ /\ calc = <<>>
     /\ \E ratingA \in CalcWinnerRatings, d \in (-MaxScoreDiff)..MaxScoreDiff :
          ApplyExpectedScore(ratingA, ratingA + d)
  \/ /\ calc = <<>>
     /\ \E wins \in 0..MaxWilsonGames, games \in 0..MaxWilsonGames,
           confidenceLevel \in ConfidenceLevels :
          ApplyWilsonScore(wins, games, confidenceLevel)
  \/ /\ calc = <<>>
     /\ \E wins \in 0..MaxWilsonGames, games \in 0..MaxWilsonGames,
           confidenceLevel \in ConfidenceLevels :
          ApplyWilsonScoreInterval(wins, games, confidenceLevel)
  \/ /\ calc = <<>>
     /\ \E games \in 0..MaxLevelGames, wins \in 0..MaxHero, losses \in 0..MaxHero :
          ApplyGetConfidenceLevel(games, wins, losses)
  \/ /\ calc = <<>>
     /\ \E draws \in [1..MaxDraws -> RandomDraws] : ApplyGetForVote(draws)
  \/ CalcReturn

\* The pure functions of the rating engine, called on any input of the sets
\* above.
SpecCalc == Init /\ [][CalcNext]_vars

\* ------------------------------------------------------ games-count repair

\* updateHeroRatings on a table, every statement succeeding: both ratings
\* are read, then the winner's row and the loser's row are written.
updateHeroRatings(table, winnerId, loserId, at) ==
  LET read(heroId) == IF heroId \in DOMAIN table
                        THEN RowToState(table[heroId])
                        ELSE createDefaultHeroRating(heroId)
      winner == read(winnerId)
      loser == read(loserId)
  IN  Upsert(Upsert(table, WinnerRow(winnerId, winner, loser, at)),
             LoserRow(loserId, winner, loser, at))

\* The row migrate-data-to-turso inserts for one Firestore rating document.
MigratedRow(rating, at) ==
  [hero_id |-> rating.heroId,
   rating |-> rating.rating,
   games |-> rating.games,
   wins |-> rating.wins,
   losses |-> rating.losses,
   is_provisional |-> rating.isProvisional,
   peak_rating |-> rating.peakRating,
   lowest_rating |-> rating.lowestRating,
   win_rate |-> rating.winRate,
   current_streak |-> rating.currentStreak,
   hero_name |-> NULL,
   created_at |-> at]

\* The table after migrate-data-to-turso copied the rating documents the
\* batch recompute writes for a ratings map.
MigratedTable(map) ==
  [h \in DOMAIN map.val |-> MigratedRow(RatingDoc(map.val[h]), 0)]

RECURSIVE LiveReplay(_, _)
\* The table after cast-vote served the comparisons of a list one at a time.
LiveReplay(table, list) ==
  IF list = <<>> THEN table
  ELSE LiveReplay(updateHeroRatings(table, Head(list)[1], Head(list)[2], 0),
                  Tail(list))

\* The vote documents of a list of comparisons, in their order.
AsVoteDocuments(list) ==
  [i \in 1..Len(list) |->
     [votedFor |-> NumberId(list[i][1]), votedAgainst |-> NumberId(list[i][2]),
      createdAt |-> <<i>>]]

\* A competitor with a longer history: games played and wins among them.
Veteran(heroId, games, wins) ==
  [heroId |-> heroId, rating |-> DEFAULT_HERO_RATING.rating, games |-> games,
   wins |-> wins, losses |-> games - wins,
   peakRating |-> DEFAULT_HERO_RATING.rating + DEFAULT_ELO_CONFIG.kFactor,
   lowestRating |-> DEFAULT_HERO_RATING.rating - DEFAULT_ELO_CONFIG.kFactor,
   currentStreak |-> IF wins > 0 THEN 1 ELSE -1]

\* Histories (games, wins) on either side of the provisional-flag threshold.
VeteranHistories == {<<18, 10>>, <<19, 15>>, <<20, 11>>, <<20, 20>>}

\* Tables of two migrated veterans after one more live comparison.
VeteranTables ==
  {updateHeroRatings(
     (1 :> MigratedRow(RatingDoc(Veteran(1, a[1], a[2])), 0))
       @@ (2 :> MigratedRow(RatingDoc(Veteran(2, b[1], b[2])), 0)),
     w, 3 - w, 0) :
   a \in VeteranHistories, b \in VeteranHistories, w \in {1, 2}}

\* The contents the heroRatings table can have when the script is run:
\* written by cast-vote from the empty table, copied from Firestore after a
\* batch recompute, or either of them after a longer history.
StoreContents ==
  {LiveReplay(EmptyMap, list) :
     list \in SeqsUpTo(Heroes \X Heroes, MaxStoreVotes)}
  \cup {MigratedTable(BuildRatings(AsVoteDocuments(list))) :
          list \in SeqsUpTo(Heroes \X Heroes, MaxStoreVotes)}
  \cup VeteranTables

\* "SET games = wins + losses" on one row, with the amount replaced.
CorrectGamesToWins(row) == [row EXCEPT !.games = row.wins]

\* "SET games = wins + losses" on one row.
CorrectGames(row) == [row EXCEPT !.games = row.wins + row.losses]

\* "SET win_rate = CASE WHEN games > 0 THEN (wins * 100.0 / games) ELSE 0 END".
RecalculateWinRate(row) ==
  [row EXCEPT !.win_rate = IF row.games > 0
                             THEN Frac(row.wins * 100, row.games)
                             ELSE Frac(0, 1)]

\* "WHERE games != (wins + losses)".
Mismatched(table) ==
  {h \in DOMAIN table : table[h].games # table[h].wins + table[h].losses}

\* The script starts and runs its first SELECT; with no row returned it
\* logs "No fixes needed!" and returns. ok = FALSE: the statement threw and
\* the catch exits the process.
FixScan(ok) ==
  /\ fpc = "idle"
  /\ fixRuns < MaxFixRuns
  /\ fixRuns' = fixRuns + 1
  /\ IF ok
       THEN /\ found' = Mismatched(heroRatings)
            /\ fpc' = IF Mismatched(heroRatings) = {} THEN "done" ELSE "update"
       ELSE /\ found' = {}
            /\ fpc' = "exit"
  /\ UNCHANGED <<heroRatings, fixDone, votes, pc, input, winnerRating,
                 loserRating, reads, readFailed, written, calls, batchVars,
                 calcVars, clockVars>>

\* "UPDATE heroRatings SET games = wins + losses WHERE games != (wins + losses)".
FixUpdateGames(ok) ==
  /\ fpc = "update"
  /\ IF ok
       THEN /\ heroRatings' =
                 [h \in DOMAIN heroRatings |->
                    IF h \in Mismatched(heroRatings)
                      THEN CorrectGames(heroRatings[h]) ELSE heroRatings[h]]
            /\ fpc' = "winrate"
       ELSE /\ UNCHANGED heroRatings
            /\ fpc' = "exit"
  /\ UNCHANGED <<found, fixRuns, fixDone, votes, pc, input, winnerRating,
                 loserRating, reads, readFailed, written, calls, batchVars,
                 calcVars, clockVars>>

\* "UPDATE heroRatings SET win_rate = ...", on every row of the table.
FixWinRates(ok) ==
  /\ fpc = "winrate"
  /\ IF ok
       THEN /\ heroRatings' =
                 [h \in DOMAIN heroRatings |-> RecalculateWinRate(heroRatings[h])]
            /\ fpc' = "verify"
       ELSE /\ UNCHANGED heroRatings
            /\ fpc' = "exit"
  /\ UNCHANGED <<found, fixRuns, fixDone, votes, pc, input, winnerRating,
                 loserRating, reads, readFailed, written, calls, batchVars,
                 calcVars, clockVars>>

\* The verification SELECT and the summary SELECT: they only read.
FixVerify(ok) ==
  /\ fpc = "verify"
  /\ fpc' = IF ok THEN "done" ELSE "exit"
  /\ UNCHANGED <<heroRatings, found, fixRuns, fixDone, votes, pc, input,
                 winnerRating, loserRating, reads, readFailed, written, calls,
                 batchVars, calcVars, clockVars>>

\* The process ends: fixGamesCount returned, or the catch called exit(1).
FixFinish ==
  /\ fpc \in {"done", "exit"}
  /\ fpc' = "idle"
  /\ found' = {}
  /\ fixDone' = (fixDone \/ fpc = "done")
  /\ UNCHANGED <<heroRatings, fixRuns, votes, pc, input, winnerRating,
                 loserRating, reads, readFailed, written, calls, batchVars,
                 calcVars, clockVars>>

RepairInit ==
  /\ heroRatings \in StoreContents
  /\ votes = <<>>
  /\ now = 0
  /\ LiveIdle
  /\ RepairIdle
  /\ BatchIdle
  /\ fsVotes = <<>>

RepairNext ==
  \/ \E ok \in BOOLEAN : FixScan(ok)
  \/ \E ok \in BOOLEAN : FixUpdateGames(ok)
  \/ \E ok \in BOOLEAN : FixWinRates(ok)
  \/ \E ok \in BOOLEAN : FixVerify(ok)
  \/ FixFinish

\* The repair script run on any of the table contents above.
SpecRepair == RepairInit /\ [][RepairNext]_vars

\* ------------------------------------------------------------------ claims

ValidVote(v) == v[1] # v[2]
AllVotesValid == \A i \in 1..Len(votes) : ValidVote(votes[i])
Quiescent == \A p \in Procs : pc[p] \in {"idle", "done", "failed"}

RECURSIVE SumWins(_, _)
SumWins(table, ids) ==
  IF ids = {} THEN 0
  ELSE LET h == CHOOSE x \in ids : TRUE
       IN  table[h].wins + SumWins(table, ids \ {h})

\* C1: after any sequence of completed live updates of valid comparisons,
\* starting from the empty table, every stored row has
\* games = wins + losses.
C1_GamesIsWinsPlusLosses ==
  (Quiescent /\ AllVotesValid) =>
    \A h \in DOMAIN heroRatings :
      heroRatings[h].games = heroRatings[h].wins + heroRatings[h].losses

\* C2: two concurrent updates of valid comparisons that share a competitor
\* lose no update: once both have completed (the only two calls, from the
\* empty table, every read answered), the shared competitor has 2 games.
C2_NoLostUpdate ==
  (/\ \A p \in Procs : pc[p] = "done" /\ readFailed[p] = {}
   /\ calls = Cardinality(Procs)
   /\ AllVotesValid) =>
    \A h \in Heroes :
      (\A p \in Procs : h \in {input[p].votedFor, input[p].votedAgainst}) =>
        (h \in DOMAIN heroRatings /\ heroRatings[h].games = Cardinality(Procs))

\* C3: an update of a valid comparison is all-or-nothing: a request that has
\* returned, with success or with an error, has written both rows or
\* neither.
C3_BothOrNeither ==
  \A p \in Procs :
    (/\ pc[p] \in {"done", "failed"}
     /\ input[p].votedFor # input[p].votedAgainst
     /\ readFailed[p] = {}) =>
      written[p] \in {{}, {"winner", "loser"}}

\* C4: a self-comparison is rejected with an error and mutates nothing: it
\* is never appended to the votes log, and the request writes no row and
\* does not return success.
C4_SelfComparisonRejected ==
  /\ AllVotesValid
  /\ \A p \in Procs :
       (pc[p] # "idle" /\ input[p].votedFor = input[p].votedAgainst) =>
         (pc[p] = "failed" /\ written[p] = {})

\* C5: when the read of either competitor fails, the update fails and
\* writes no row.
C5_ReadFailureWritesNothing ==
  \A p \in Procs :
    (readFailed[p] # {} /\ input[p].votedFor # input[p].votedAgainst) =>
      (written[p] = {} /\ pc[p] # "done")

\* C6: after any sequence of completed cast-vote calls, the wins of all
\* rows add up to the number of votes in the log.
C6_WinsSumIsVoteCount ==
  Quiescent => SumWins(heroRatings, DOMAIN heroRatings) = Len(votes)

\* The fields of a stored record that the two paths are compared on.
LiveView(row) ==
  [rating |-> row.rating, games |-> row.games, wins |-> row.wins,
   losses |-> row.losses, peakRating |-> row.peak_rating,
   lowestRating |-> row.lowest_rating, currentStreak |-> row.current_streak,
   winRate |-> row.win_rate, isProvisional |-> row.is_provisional]

BatchView(doc) ==
  [rating |-> doc.rating, games |-> doc.games, wins |-> doc.wins,
   losses |-> doc.losses, peakRating |-> doc.peakRating,
   lowestRating |-> doc.lowestRating, currentStreak |-> doc.currentStreak,
   winRate |-> doc.winRate, isProvisional |-> doc.isProvisional]

\* The votes log as the event list handed to the batch path: the i-th vote
\* carries creation time i.
LogAsVoteDocuments ==
  [i \in 1..Len(votes) |->
     [votedFor |-> NumberId(votes[i][1]), votedAgainst |-> NumberId(votes[i][2]),
      createdAt |-> <<i>>]]

\* C7: for every sequence of valid comparisons, the rows the live path has
\* stored after applying them one call at a time from the empty table equal,
\* field by field, the documents the batch path writes for the same
\* sequence.
C7_LiveEqualsBatch ==
  (Quiescent /\ AllVotesValid) =>
    LET replayed == BuildRatings(fetchAllVotes(LogAsVoteDocuments))
    IN  /\ DOMAIN heroRatings = DOMAIN replayed.val
        /\ \A h \in DOMAIN heroRatings :
             LiveView(heroRatings[h]) = BatchView(RatingDoc(replayed.val[h]))

\* The documents writeRatingsToFirestore sets for the in-memory map.
NewDocs == [h \in DOMAIN ratings.val |-> RatingDoc(ratings.val[h])]

\* C8: a migration that completes after an earlier completed migration of
\* the same votes (so with force=true whenever records exist) leaves the
\* collection with the same documents, field for field.
C8_RecomputeIdempotent ==
  (mpc = "done" /\ lastGood # <<>>) => fsRatings = lastGood[1]

C8_Witness ==
  /\ mpc = "done"
  /\ lastGood # <<>>
  /\ query.force
  /\ \E h \in DOMAIN fsRatings : fsRatings[h].games >= 2

\* A vote document the replay applies.
ValidVoteDocument(vote) ==
  /\ TypeOf(vote.votedFor) = "number"
  /\ TypeOf(vote.votedAgainst) = "number"
  /\ vote.votedFor.value # vote.votedAgainst.value

\* Position of list[i] when list is ordered by time, ties by position.
Rank(list, i) ==
  Cardinality({j \in 1..Len(list) :
                 \/ TimeOf(list[j]) < TimeOf(list[i])
                 \/ (TimeOf(list[j]) = TimeOf(list[i]) /\ j < i)}) + 1

ByTimeThenArrival(list) ==
  [k \in 1..Len(list) |-> list[CHOOSE i \in 1..Len(list) : Rank(list, i) = k]]

\* C9: whatever the order of the collection, the votes are replayed in
\* non-decreasing time order, votes of equal time in the order the store
\* returned them.
C9_ReplayOrder ==
  mpc \in {"noVotes", "dryRunDone", "delete", "write", "done", "writeFailed"} =>
    /\ \A i \in 1..Len(fetched) : \A j \in i..Len(fetched) :
         TimeOf(fetched[i]) <= TimeOf(fetched[j])
    /\ fetched = ByTimeThenArrival(fsVotes)
    /\ mpc # "noVotes" =>
         ratings = ProcessAll(NoRatingsMap, ByTimeThenArrival(fsVotes))

C9_Witness ==
  /\ mpc = "done"
  /\ fetched # fsVotes
  /\ \E i \in 1..Len(fetched) : \E j \in (i + 1)..Len(fetched) :
       /\ TimeOf(fetched[i]) = TimeOf(fetched[j])
       /\ fetched[i] # fetched[j]
       /\ ValidVoteDocument(fetched[i])
       /\ ValidVoteDocument(fetched[j])

\* C10: from the moment writeRatingsToFirestore has read the collection,
\* and after it has returned or thrown, the collection holds either all the
\* documents it held before or all the newly computed ones.
C10_AtomicReplace ==
  mpc \in {"delete", "write", "done", "writeFailed"} =>
    (fsRatings = existingDocs \/ fsRatings = NewDocs)

\* processVote over every vote of a list, in order.
RECURSIVE ApplyVotes(_, _)
ApplyVotes(map, list) ==
  IF list = <<>> THEN map
  ELSE ApplyVotes(processVote(map, Head(list).votedFor.value,
                              Head(list).votedAgainst.value),
                  Tail(list))

\* C11: a migration over votes of which at least one is invalid (equal ids,
\* or an id that is not a number) runs to its success response; the ratings
\* it computed are those of the valid votes alone, applied in order; and a
\* count in the response's stats is the number of votes skipped.
C11_InvalidVotesSkippedAndCounted ==
  (/\ mpc \in {"done", "dryRunDone"}
   /\ \E i \in 1..Len(fetched) : ~ValidVoteDocument(fetched[i])) =>
    LET applied == SelectSeq(fetched, ValidVoteDocument)
        skipped == Len(fetched) - Len(applied)
    IN  /\ ratings = ApplyVotes(NoRatingsMap, applied)
        /\ response # <<>>
        /\ response[1].success
        /\ \E field \in DOMAIN response[1].stats :
             response[1].stats[field] = skipped

\* C12: from the empty table, the first cast-vote, A beats B with A # B,
\* returns winnerRatingChange 24 and loserRatingChange -24 and leaves A with
\* rating 1524, games 1, wins 1, losses 0, provisional, and B with rating
\* 1476, games 1, wins 0, losses 1.
C12_FirstComparison ==
  (calls = 1 /\ pc[1] = "done" /\ input[1].votedFor # input[1].votedAgainst) =>
    LET A == input[1].votedFor
        B == input[1].votedAgainst
    IN  /\ CastVoteResult(1).winnerRatingChange = 24
        /\ CastVoteResult(1).loserRatingChange = -24
        /\ DOMAIN heroRatings = {A, B}
        /\ heroRatings[A].rating = 1524
        /\ heroRatings[A].games = 1
        /\ heroRatings[A].wins = 1
        /\ heroRatings[A].losses = 0
        /\ heroRatings[A].is_provisional
        /\ heroRatings[B].rating = 1476
        /\ heroRatings[B].games = 1
        /\ heroRatings[B].wins = 0
        /\ heroRatings[B].losses = 1

Called(fn) == calc # <<>> /\ calc[1].fn = fn

\* C13: whatever the ratings and game counts, calculateNewRatings returns
\* winnerChange >= 0 and loserChange <= 0, and each new rating is the old
\* rating plus the side's change.
C13_ChangeSigns ==
  Called("calculateNewRatings") =>
    LET a == calc[1].args
        r == calc[1].result
    IN  /\ r.winnerChange >= 0
        /\ r.loserChange <= 0
        /\ r.newWinnerRating = a.winnerRating + r.winnerChange
        /\ r.newLoserRating = a.loserRating + r.loserChange

C13_Witness ==
  /\ Called("calculateNewRatings")
  /\ calc[1].args.config = EmptyMap
  /\ calc[1].args.winnerRating < calc[1].args.loserRating
  /\ calc[1].result.winnerChange > 0
  /\ calc[1].result.loserChange < 0
  /\ calc[1].result.newWinnerRating > calc[1].args.loserRating

\* C14: whenever both sides select the same K-factor, whatever the ratings
\* and whatever kFactor and provisionalKFactor the caller overrides, the
\* winner gains exactly what the loser loses.
C14_ZeroSumUnderEqualK ==
  Called("calculateNewRatings") =>
    LET a == calc[1].args
        r == calc[1].result
    IN  getKFactor(a.winnerGames, a.config) = getKFactor(a.loserGames, a.config) =>
          r.winnerChange = -r.loserChange

\* C15: each side's K-factor is chosen by its own game count:
\* provisionalKFactor (48) exactly when its games are below
\* provisionalThreshold (10), kFactor (32) otherwise, so a side with exactly
\* 10 games uses 32 and the two sides may use different K-factors; and
\* getKFactor gives that same K-factor for a game count and configuration.
C15_KFactorPerSide ==
  /\ Called("getKFactor") =>
       LET a == calc[1].args
           full == FullConfig(a.config)
       IN  /\ calc[1].result =
                IF a.games < full.provisionalThreshold
                  THEN full.provisionalKFactor ELSE full.kFactor
           /\ a.config = EmptyMap =>
                calc[1].result = IF a.games < 10 THEN 48 ELSE 32
  /\ Called("calculateNewRatings") =>
       LET a == calc[1].args
           r == calc[1].result
           winnerK == getKFactor(a.winnerGames, a.config)
           loserK == getKFactor(a.loserGames, a.config)
       IN  /\ r.winnerChange =
                MathRound(winnerK * (Scale - expectedScore(a.winnerRating, a.loserRating)),
                          Scale)
           /\ r.loserChange =
                MathRound(loserK * (0 - expectedScore(a.loserRating, a.winnerRating)),
                          Scale)
           /\ a.config = EmptyMap =>
                /\ winnerK = IF a.winnerGames < 10 THEN 48 ELSE 32
                /\ loserK = IF a.loserGames < 10 THEN 48 ELSE 32

\* An established winner with exactly 10 games against a provisional loser
\* of equal rating: the winner moves by 16, the loser by 24.
C15_Witness ==
  /\ Called("calculateNewRatings")
  /\ calc[1].args.config = EmptyMap
  /\ calc[1].args.winnerGames = 10
  /\ calc[1].args.loserGames = 9
  /\ calc[1].args.winnerRating = calc[1].args.loserRating
  /\ calc[1].result.winnerChange = 16
  /\ calc[1].result.loserChange = -24

\* C16: expectedScore(Ra, Rb) + expectedScore(Rb, Ra) is 1 to within 1e-9
\* (the two tabulated scores, each within 0.5e-9 of the computed one, add up
\* to exactly NanoScale), expectedScore(R, R) is 0.5, and every score lies
\* in [0, 1].
C16_ExpectedScoresAddToOne ==
  Called("expectedScore") =>
    LET a == calc[1].args
        r == calc[1].result
    IN  /\ r + expectedScoreNano(a.ratingB, a.ratingA) = NanoScale
        /\ a.ratingA = a.ratingB => 2 * r = NanoScale
        /\ r >= 0
        /\ r <= NanoScale

C16_Witness ==
  /\ Called("expectedScore")
  /\ calc[1].args.ratingB > calc[1].args.ratingA + 200
  /\ calc[1].result < NanoScale \div 4

\* C17: for every games >= 1 and 0 <= wins <= games, wilsonScore(wins, games)
\* lies in [0, 1] and does not decrease when wins grows by one.
C17_WilsonScoreRangeAndMonotone ==
  (/\ Called("wilsonScore")
   /\ calc[1].args.games >= 1
   /\ calc[1].args.confidenceLevel = 95) =>
    LET a == calc[1].args
        r == calc[1].result
    IN  /\ r >= 0
        /\ r <= NanoScale
        /\ a.wins < a.games => r <= wilsonScore(a.wins + 1, a.games, a.confidenceLevel)

\* C18: for a record without games, whatever the wins and the confidence
\* level, wilsonScore is 0 and wilsonScoreInterval is {lower: 0, upper: 0}.
C18_NoGamesScoresZero ==
  /\ (Called("wilsonScore") /\ calc[1].args.games = 0) => calc[1].result = 0
  /\ (Called("wilsonScoreInterval") /\ calc[1].args.games = 0) =>
       calc[1].result = [lower |-> 0, upper |-> 0]

C18_Witness ==
  /\ Called("wilsonScore")
  /\ calc[1].args.games = 0
  /\ calc[1].args.wins > 0
  /\ calc[1].args.confidenceLevel \notin {90, 95, 99}
  /\ calc[1].result = 0

C20_DryRunWritesNothing ==
  [][(query.dryRun \/ query'.dryRun) => fsRatings' = fsRatings]_vars

C20_Witness ==
  /\ mpc = "dryRunDone"
  /\ query.dryRun
  /\ query.force
  /\ DOMAIN fsRatings # {}
  /\ ratings.keys # <<>>
  /\ response = <<SuccessResponse(fetched, ratings)>>

\* The win rate wins * 100 / games of a row, 0 for a row without games.
WinRateOf(row) ==
  IF row.games > 0 THEN Frac(row.wins * 100, row.games) ELSE Frac(0, 1)

\* C21: fixGamesCount is an idempotent repair: whenever a run has completed,
\* from any table contents, every row has games = wins + losses and
\* win_rate = wins * 100 / games (0 without games); no step of the script
\* changes a row's wins, losses or rating or the set of rows; and once a run
\* has completed no later run changes anything.
C21_IdempotentRepair ==
  /\ [](fpc = "done" =>
          \A h \in DOMAIN heroRatings :
            /\ heroRatings[h].games = heroRatings[h].wins + heroRatings[h].losses
            /\ heroRatings[h].win_rate = WinRateOf(heroRatings[h]))
  /\ [][/\ DOMAIN heroRatings' = DOMAIN heroRatings
        /\ \A h \in DOMAIN heroRatings :
             /\ heroRatings'[h].wins = heroRatings[h].wins
             /\ heroRatings'[h].losses = heroRatings[h].losses
             /\ heroRatings'[h].rating = heroRatings[h].rating
        /\ fixDone => heroRatings' = heroRatings]_vars

\* C26: when a run of fixGamesCount has completed, every row whose games it
\* corrected carries is_provisional = (games < 20) for the corrected games
\* and the win rate recomputed from them.
C26_FlagFollowsCorrectedGames ==
  fpc = "done" =>
    \A h \in found :
      /\ heroRatings[h].is_provisional = isProvisional(heroRatings[h].games)
      /\ heroRatings[h].win_rate = WinRateOf(heroRatings[h])

\* C22: when migrate-elo has replayed the votes, a competitor has a record
\* in the ratings map exactly when a valid vote names it, and the record's
\* wins, losses and games are the numbers of valid votes naming it as
\* votedFor, as votedAgainst, and their sum.
C22_BatchCountsValidVotes ==
  mpc \in {"dryRunDone", "delete", "write", "done", "writeFailed"} =>
    LET valid == SelectSeq(fetched, ValidVoteDocument)
        won(h) == Cardinality({i \in 1..Len(valid) : valid[i].votedFor.value = h})
        lost(h) ==
          Cardinality({i \in 1..Len(valid) : valid[i].votedAgainst.value = h})
    IN  /\ DOMAIN ratings.val = {h \in Heroes : won(h) + lost(h) > 0}
        /\ Elems(ratings.keys) = DOMAIN ratings.val
        /\ \A h \in DOMAIN ratings.val :
             /\ ratings.val[h].wins = won(h)
             /\ ratings.val[h].losses = lost(h)
             /\ ratings.val[h].games = won(h) + lost(h)

\* A replay in which one competitor won and lost, and another is named by
\* invalid votes only.
C22_Witness ==
  /\ mpc = "done"
  /\ \E h \in DOMAIN ratings.val :
       ratings.val[h].wins >= 1 /\ ratings.val[h].losses >= 1
  /\ \E i \in 1..Len(fetched) :
       /\ ~ValidVoteDocument(fetched[i])
       /\ fetched[i].votedFor.value \notin DOMAIN ratings.val

\* The run of equal outcomes that ends a competitor's history in a list of
\* comparisons: +k after k wins in a row, -k after k losses, 0 without history.
TrailingRun(h, list) ==
  LET own == SelectSeq(list, LAMBDA v : h \in {v[1], v[2]})
      n == Len(own)
      isWin(i) == own[i][1] = h
      run == CHOOSE k \in 1..n :
               /\ \A j \in (n - k + 1)..n : isWin(j) = isWin(n)
               /\ k < n => isWin(n - k) # isWin(n)
  IN  IF n = 0 THEN 0 ELSE IF isWin(n) THEN run ELSE -run

\* The valid votes of a list as <<winner, loser>> pairs.
AsComparisons(list) ==
  LET valid == SelectSeq(list, ValidVoteDocument)
  IN  [i \in 1..Len(valid) |->
         <<valid[i].votedFor.value, valid[i].votedAgainst.value>>]

C24_ExtremaBracketRating ==
  /\ [](\A h \in DOMAIN heroRatings :
          /\ heroRatings[h].lowest_rating <= heroRatings[h].rating
          /\ heroRatings[h].rating <= heroRatings[h].peak_rating)
  /\ [][\A h \in DOMAIN heroRatings' :
          (h \notin DOMAIN heroRatings \/ heroRatings'[h] # heroRatings[h]) =>
            LET before == IF h \in DOMAIN heroRatings
                            THEN RowToState(heroRatings[h])
                            ELSE createDefaultHeroRating(h)
            IN  /\ heroRatings'[h].peak_rating =
                     Max(before.peakRating, heroRatings'[h].rating)
                /\ heroRatings'[h].lowest_rating =
                     Min(before.lowestRating, heroRatings'[h].rating)]_vars

\* C25: every rating document the batch recompute has written, like every
\* row a comparison update has written, carries winRate = wins / games * 100
\* and isProvisional = (games < 20).
C25_DerivedFieldsFollowCounts ==
  /\ \A h \in DOMAIN fsRatings :
       /\ fsRatings[h].games > 0 =>
            fsRatings[h].winRate = Frac(fsRatings[h].wins * 100, fsRatings[h].games)
       /\ fsRatings[h].isProvisional = isProvisional(fsRatings[h].games)
  /\ \A h \in DOMAIN heroRatings :
       /\ heroRatings[h].win_rate = WinRateOf(heroRatings[h])
       /\ heroRatings[h].is_provisional = isProvisional(heroRatings[h].games)

\* C27: a live update changes only the rating and the statistics: every
\* step leaves hero_name and created_at of each existing row as they were,
\* and leaves the rows of the competitors no request names unchanged.
C27_UpdateKeepsNameAndCreation ==
  [][\A h \in DOMAIN heroRatings :
       /\ h \in DOMAIN heroRatings'
       /\ heroRatings'[h].hero_name = heroRatings[h].hero_name
       /\ heroRatings'[h].created_at = heroRatings[h].created_at
       /\ (\A p \in Procs : h \notin {input'[p].votedFor, input'[p].votedAgainst})
            => heroRatings'[h] = heroRatings[h]]_vars

\* C28: whenever cast-vote returns success: false, its vote has not been
\* appended to the votes log and it has written no heroRatings row; for the
\* first request this leaves the log and the table empty.
C28_FailureLeavesNoTrace ==
  \A p \in Procs :
    pc[p] = "failed" =>
      /\ written[p] = {}
      /\ calls = 1 => (votes = <<>> /\ heroRatings = EmptyMap)

\* C29: across any sequence of live updates a competitor's stored games
\* increases by exactly 1 with each comparison written for it (from 0 for a
\* new row) and never decreases, and is_provisional, once false, never
\* becomes true again.
C29_GamesCountUp ==
  [][\A h \in DOMAIN heroRatings' :
       (h \notin DOMAIN heroRatings \/ heroRatings'[h] # heroRatings[h]) =>
         LET before == IF h \in DOMAIN heroRatings
                         THEN RowToState(heroRatings[h])
                         ELSE createDefaultHeroRating(h)
         IN  /\ heroRatings'[h].games = before.games + 1
             /\ ~isProvisional(before.games) => ~heroRatings'[h].is_provisional]_vars

\* C30: getForVote always returns two distinct hero ids, each of them within
\* 1..731.
C30_TwoDistinctCatalogueIds ==
  Called("getForVote") =>
    /\ calc[1].result[1] # calc[1].result[2]
    /\ calc[1].result[1] \in 1..max
    /\ calc[1].result[2] \in 1..max

====
